---- MODULE Spec2Model ----
(***************************************************************************)
(* A model of gpugt: the finite tree, the finite extensive-form game built *)
(* on it and the node-based counterfactual regret minimization solver.     *)
(*                                                                         *)
(* Conventions.  A FrozenOrderedSet is a sequence without duplicates (its  *)
(* insertion order); a FrozenOrderedMapping is a function (its key order   *)
(* is never read by the modelled code).  Vertices are integers;           *)
(* information sets, actions and players are strings.  An exception is     *)
(* the string of its message; "pending" is a call not made yet and "ok" a  *)
(* call that returned.                                                     *)
(***************************************************************************)
EXTENDS Integers, Sequences, FiniteSets, TLC

VARIABLES
    tree_args,     \* the arguments handed to FiniteTree(...)
    tree_raised,   \* "pending", "ok" or the ValueError raised
    finite_tree,   \* the FiniteTree instances that exist (none or one)
    game_args,     \* the arguments handed to FiniteExtensiveFormGame(...)
    game_raised,   \* "pending", "ok" or the exception raised
    game,          \* the FiniteExtensiveFormGame instances that exist
    solver_raised, \* "pending", "ok" or the exception raised by
                   \* CounterfactualRegretMinimization(game)
    indices,       \* the solver's index maps _nodes, _information_sets,
                   \* _actions, _players
    tensors,       \* the solver's arrays that setup fills
    buffers,       \* the solver's arrays and counter that iterate() fills
    returned,      \* the latest call on the solver and what it returned
    iterate_calls, \* history: the number of iterate() calls that returned
    process,       \* the tree-form sequential decision process handed to a
                   \* sequence-form regret minimizer
    minimizer,     \* the fields of the sequence-form regret minimizer, or
                   \* <<>> before it is constructed
    observe_calls, \* history: the number of observe_utility calls
    profile,       \* the strategy profile handed to BestResponse(...) and
                   \* ExpectedPayoffs(...)
    responder,     \* the player handed to BestResponse(...)
    best_response, \* the fields of the BestResponse instance and the caches
                   \* of its methods, or <<>> before it is constructed
    expected,      \* the ExpectedPayoffs instance made last, or <<>>
    answered       \* the latest call on either and what it returned

tree_vars == <<tree_args, tree_raised, finite_tree>>
game_vars == <<game_args, game_raised, game>>
solver_vars == <<solver_raised, indices, tensors, buffers, returned,
                 iterate_calls>>

minimizer_vars == <<process, minimizer, observe_calls>>

response_vars == <<profile, responder, best_response, expected, answered>>

\* The variables of the parts added to the three above.
other_vars == <<minimizer_vars, response_vars>>

vars == <<tree_args, tree_raised, finite_tree, game_args, game_raised, game,
          solver_raised, indices, tensors, buffers, returned, iterate_calls,
          process, minimizer, observe_calls,
          profile, responder, best_response, expected, answered>>

(***************************************************************************)
(* Bounds.                                                                 *)
(***************************************************************************)
\* Vertex identifiers offered to FiniteTree(...) are 1..MaxVertices.
MaxVertices == 3
\* Game trees offered to FiniteExtensiveFormGame(...) have the vertices 1..k,
\* k <= MaxGameVertices, and the root 1.
MaxGameVertices == 3
\* Chance probabilities offered are the multiples of 1/ProbDenominator in [0, 1].
ProbDenominator == 2

(***************************************************************************)
(* Numbers.  A float is modelled by the exact rational <<n, d>> in lowest  *)
(* terms with d > 0; <<0, 0>> is NaN, <<1, 0>> and <<-1, 0>> are the       *)
(* infinities.                                                             *)
(***************************************************************************)
RECURSIVE GCD(_, _)
GCD(a, b) == IF b = 0 THEN a ELSE GCD(b, a % b)

Abs(n) == IF n < 0 THEN -n ELSE n
Sign(n) == IF n < 0 THEN -1 ELSE IF n > 0 THEN 1 ELSE 0

NaN == <<0, 0>>
Zero == <<0, 1>>
One == <<1, 1>>

\* n / d for integers n, d as a float.
Rat(n, d) ==
    IF d = 0 THEN <<Sign(n), 0>>
    ELSE LET k == GCD(Abs(n), Abs(d))
         IN <<(Sign(d) * n) \div k, Abs(d) \div k>>

isnan(x) == x = NaN
IsFinite(x) == x[2] # 0

Neg(x) == <<-x[1], x[2]>>

Add(x, y) ==
    IF isnan(x) \/ isnan(y) THEN NaN
    ELSE IF ~IsFinite(x) /\ ~IsFinite(y) THEN (IF x = y THEN x ELSE NaN)
    ELSE IF ~IsFinite(x) THEN x
    ELSE IF ~IsFinite(y) THEN y
    ELSE Rat(x[1] * y[2] + y[1] * x[2], x[2] * y[2])

Sub(x, y) == Add(x, Neg(y))

Mul(x, y) ==
    IF isnan(x) \/ isnan(y) THEN NaN
    ELSE IF ~IsFinite(x) \/ ~IsFinite(y)
        THEN <<Sign(x[1]) * Sign(y[1]), 0>>
    ELSE Rat(x[1] * y[1], x[2] * y[2])

Div(x, y) ==
    IF isnan(x) \/ isnan(y) THEN NaN
    ELSE IF ~IsFinite(y) THEN (IF IsFinite(x) THEN Zero ELSE NaN)
    ELSE IF ~IsFinite(x) THEN <<x[1] * (IF y[1] < 0 THEN -1 ELSE 1), 0>>
    ELSE Rat(x[1] * y[2], x[2] * y[1])

\* x < y for floats; every comparison with NaN is false.
Less(x, y) ==
    /\ ~isnan(x) /\ ~isnan(y)
    /\ IF IsFinite(x) /\ IsFinite(y) THEN x[1] * y[2] < y[1] * x[2]
       ELSE IF IsFinite(x) THEN y[1] > 0
       ELSE IF IsFinite(y) THEN x[1] < 0
       ELSE x[1] < y[1]

RECURSIVE SumSeq(_)
\* The sum of a sequence of floats.
SumSeq(s) == IF s = <<>> THEN Zero ELSE Add(SumSeq(Tail(s)), Head(s))

RECURSIVE SumOver(_, _)
\* The sum of f[x] over the set S.
SumOver(f, S) ==
    IF S = {} THEN Zero
    ELSE LET x == CHOOSE x \in S : TRUE
         IN Add(f[x], SumOver(f, S \ {x}))

(***************************************************************************)
(* collections2.py                                                         *)
(***************************************************************************)
\* FrozenOrderedSet.__contains__
Contains(s, o) == \E i \in 1..Len(s) : s[i] = o

\* The members of a FrozenOrderedSet, as FrozenOrderedSet.__eq__ compares them.
Members(s) == {s[i] : i \in 1..Len(s)}

\* Set.__le__ on a FrozenOrderedSet: shorter or equal, and every member in other.
IsSubsetEq(s, other) ==
    /\ Len(s) <= Len(other)
    /\ \A i \in 1..Len(s) : Contains(other, s[i])

\* Set.__sub__ on a FrozenOrderedSet: the members not in other, in self's order.
Minus(s, other) == SelectSeq(s, LAMBDA x : x \notin other)

\* FrozenOrderedMapping.keys() and .values()
Keys(m) == DOMAIN m
Values(m) == {m[k] : k \in DOMAIN m}

(***************************************************************************)
(* graphs/finite_tree.py                                                   *)
(***************************************************************************)
\* FiniteTree.non_roots
non_roots(t) == Minus(t.vertices, {t.root})

\* FiniteTree.internal_vertices
internal_vertices(t) == Minus(t.vertices, Members(t.leaves))

\* A plausible slip in the last check: <= written for !=.
FiniteTree_post_init_subset(t) ==
    IF ~Contains(t.vertices, t.root) THEN "root not a member of nodes"
    ELSE IF ~IsSubsetEq(t.leaves, t.vertices)
        THEN "leaves not a subset of vertices"
    ELSE IF Keys(t.parents) # Members(non_roots(t))
        THEN "parents not defined for non-roots"
    ELSE IF ~(Values(t.parents) \subseteq Members(internal_vertices(t)))
        THEN "non-parent internal vertex"
    ELSE "ok"

\* FiniteTree.__post_init__: the ValueError raised, or "ok".
FiniteTree_post_init(t) ==
    IF ~Contains(t.vertices, t.root) THEN "root not a member of nodes"
    ELSE IF ~IsSubsetEq(t.leaves, t.vertices)
        THEN "leaves not a subset of vertices"
    ELSE IF Keys(t.parents) # Members(non_roots(t))
        THEN "parents not defined for non-roots"
    ELSE IF Values(t.parents) # Members(internal_vertices(t))
        THEN "non-parent internal vertex"
    ELSE "ok"

\* FiniteTree.children, as a function of the parent: the children of v in the
\* order of vertices (empty for a vertex that is no key of the mapping).
children(t, v) ==
    SelectSeq(non_roots(t), LAMBDA c : t.parents[c] = v)

(***************************************************************************)
(* games/finite_extensive_form_game.py                                     *)
(***************************************************************************)
\* FrozenOrderedSet(iterable): the distinct members in order of first
\* occurrence (dict(zip(iterable, repeat(None)))).
RECURSIVE FrozenOrderedSet(_)
FrozenOrderedSet(iterable) ==
    IF iterable = <<>> THEN <<>>
    ELSE LET front == FrozenOrderedSet(SubSeq(iterable, 1, Len(iterable) - 1))
             last  == iterable[Len(iterable)]
         IN IF Contains(front, last) THEN front ELSE Append(front, last)

\* collections.Counter(iterable): the number of occurrences of each member.
Counter(iterable) ==
    [x \in Members(iterable) |->
        Cardinality({i \in 1..Len(iterable) : iterable[i] = x})]

\* map(f.__getitem__, s)
MapGet(f, s) == [i \in 1..Len(s) |-> f[s[i]]]

\* FiniteExtensiveFormGame.nodes, initial_node, terminal_nodes, predecessors,
\* non_initial_nodes, decision_nodes
nodes(g) == g.game_tree.vertices
initial_node(g) == g.game_tree.root
terminal_nodes(g) == g.game_tree.leaves
predecessors(g) == g.game_tree.parents
non_initial_nodes(g) == non_roots(g.game_tree)
decision_nodes(g) == internal_vertices(g.game_tree)

\* FiniteExtensiveFormGame.successors (FiniteTree.children): the mapping from
\* each parent to the FrozenOrderedSet of its children.
successors(g) ==
    [v \in Values(g.game_tree.parents) |-> children(g.game_tree, v)]

\* The information set of the predecessor of a non-initial node.
PredecessorInformationSet(g, node) ==
    g.information_partition[predecessors(g)[node]]

\* FiniteExtensiveFormGame.available_actions: for each information set that
\* is the information set of some predecessor, the actions of the nodes below
\* it, in order of first occurrence over non_initial_nodes.
available_actions(g) ==
    LET nr == non_initial_nodes(g)
    IN [h \in {PredecessorInformationSet(g, nr[i]) : i \in 1..Len(nr)} |->
           FrozenOrderedSet(
               MapGet(g.action_partition,
                      SelectSeq(nr, LAMBDA n :
                                    PredecessorInformationSet(g, n) = h)))]

\* FiniteExtensiveFormGame.nature_information_sets
nature_information_sets(g) ==
    SelectSeq(g.information_sets, LAMBDA h : g.player_partition[h] = g.nature)

\* players - {nature}
RationalPlayers(g) == Minus(g.players, {g.nature})

\* The loop with the Counter comparison replaced by a comparison of sets.
ActionsNotBijection_sets(g) ==
    \E d \in Members(decision_nodes(g)) :
        Members(available_actions(g)[g.information_partition[d]])
            # Members(MapGet(g.action_partition, successors(g)[d]))

\* The first loop of __post_init__: some decision node whose successors'
\* actions, counted, differ from the available actions of its information set.
ActionsNotBijection(g) ==
    \E d \in Members(decision_nodes(g)) :
        Counter(available_actions(g)[g.information_partition[d]])
            # Counter(MapGet(g.action_partition, successors(g)[d]))

\* The second loop of __post_init__, over nature_information_sets in order:
\* available_actions[h] raises KeyError for an information set under which
\* no node lies; differing key sets raise ValueError.
NatureLoopIndexFails(g, i) ==
    LET h == nature_information_sets(g)[i]
    IN \/ h \notin DOMAIN available_actions(g)
       \/ Keys(g.nature_probabilities[h]) # Members(available_actions(g)[h])

NatureLoop(g) ==
    LET nis == nature_information_sets(g)
        bad == {i \in 1..Len(nis) : NatureLoopIndexFails(g, i)}
    IN IF bad = {} THEN "ok"
       ELSE LET first == CHOOSE i \in bad : \A j \in bad : i <= j
            IN IF nis[first] \notin DOMAIN available_actions(g)
               THEN "KeyError"
               ELSE "probabilities undefined for nature actions"

\* The third loop of __post_init__.
PayoffsNotOnPlayers(g) ==
    \E v \in DOMAIN g.payoffs :
        Keys(g.payoffs[v]) # Members(RationalPlayers(g))

\* FiniteExtensiveFormGame.__post_init__: the exception raised, or "ok".
FiniteExtensiveFormGame_post_init(g) ==
    IF Keys(g.information_partition) # Members(decision_nodes(g))
        THEN "information partition not on decision nodes"
    ELSE IF ~(Values(g.information_partition)
                  \subseteq Members(g.information_sets))
        THEN "undefined infoset in information partition"
    ELSE IF Keys(g.action_partition) # Members(non_initial_nodes(g))
        THEN "action partition not on non-initial nodes"
    ELSE IF ~(Values(g.action_partition) \subseteq Members(g.actions))
        THEN "undefined action in action partition"
    ELSE IF g.nature # "None" /\ ~Contains(g.players, g.nature)
        THEN "nature not member of players"
    ELSE IF Keys(g.player_partition) # Members(g.information_sets)
        THEN "player partition not on information sets"
    ELSE IF ~(Values(g.player_partition) \subseteq Members(g.players))
        THEN "undefined player in player partition"
    ELSE IF Keys(g.nature_probabilities)
                # Members(nature_information_sets(g))
        THEN "nature probabilities undefined for nature information sets"
    ELSE IF Keys(g.payoffs) # Members(terminal_nodes(g))
        THEN "payoffs undefined for terminal nodes"
    ELSE IF ActionsNotBijection(g)
        THEN "actions not bijection with successors"
    ELSE IF NatureLoop(g) # "ok" THEN NatureLoop(g)
    ELSE IF PayoffsNotOnPlayers(g)
        THEN "payoffs not defined for (rational) players"
    ELSE "ok"

(***************************************************************************)
(* algorithms/counterfactual_regret_minimization.py                        *)
(*                                                                         *)
(* An index map built by dict.update(zip(keys, count())) is the sequence   *)
(* of its keys: the key at position k has the index k - 1.  A sparse 0/1   *)
(* matrix is the set of its stored entries <<row, column>>; a dense vector *)
(* or matrix is a function of its indices.                                 *)
(***************************************************************************)
\* A dense array: the function f with every entry computed.
Dense(f) == f @@ <<>>

\* d[key] for an index map d.
IndexOf(d, key) == (CHOOSE k \in 1..Len(d) : d[k] = key) - 1

Indices(d) == 0..(Len(d) - 1)

\* The information sets _setup_indices numbers: the game's, less nature's.
SolverInformationSets(g) ==
    Minus(g.information_sets, Members(nature_information_sets(g)))

\* zip(repeat(information_set), actions) for one information set.
ActionPairs(g, h) ==
    [k \in 1..Len(available_actions(g)[h]) |-> <<h, available_actions(g)[h][k]>>]

RECURSIVE ConcatActionPairs(_, _)
\* The keys of _actions after the loop over the information sets hs.
ConcatActionPairs(g, hs) ==
    IF hs = <<>> THEN <<>>
    ELSE ActionPairs(g, Head(hs)) \o ConcatActionPairs(g, Tail(hs))

\* _setup_indices raises KeyError at game.available_actions[information_set]
\* for an information set under which no node lies.
SetupIndicesRaises(g) ==
    \E h \in Members(SolverInformationSets(g)) :
        h \notin DOMAIN available_actions(g)

\* A slip: the information sets are numbered from the last to the first.
setup_indices_backwards(g) ==
    LET hs == SolverInformationSets(g)
        backwards == [k \in 1..Len(hs) |-> hs[Len(hs) + 1 - k]]
    IN [nodes            |-> nodes(g),
        information_sets |-> backwards,
        actions          |-> ConcatActionPairs(g, backwards),
        players          |-> Minus(g.players, {g.nature})]

\* _setup_indices
setup_indices(g) ==
    [nodes            |-> nodes(g),
     information_sets |-> SolverInformationSets(g),
     actions          |-> ConcatActionPairs(g, SolverInformationSets(g)),
     players          |-> Minus(g.players, {g.nature})]

\* game.successors.get(node, ())
SuccessorsGet(g, node) ==
    IF node \in DOMAIN successors(g) THEN successors(g)[node] ELSE <<>>

\* The entries level_graph[v, vv] = 1 written for the nodes of one level.
LevelEdges(g, ix, level_nodes) ==
    {<<IndexOf(ix.nodes, u), IndexOf(ix.nodes, c)>> :
        <<u, c>> \in {e \in level_nodes \X Members(nodes(g)) :
                         Contains(SuccessorsGet(g, e[1]), e[2])}}

RECURSIVE LevelGraphsFrom(_, _, _)
\* The level graphs appended by the while loop of _setup_tensors, started
\* with level_nodes.
LevelGraphsFrom(g, ix, level_nodes) ==
    IF level_nodes = {} THEN <<>>
    ELSE <<LevelEdges(g, ix, level_nodes)>>
             \o LevelGraphsFrom(g, ix,
                    UNION {Members(SuccessorsGet(g, u)) : u \in level_nodes})

\* _level_graphs as the while loop leaves it, the last layer included.
BuiltLevelGraphs(g, ix) == LevelGraphsFrom(g, ix, {initial_node(g)})

\* A slip: the first layer is asserted to have no edges.
LevelGraphAssertion_first(g, ix) == BuiltLevelGraphs(g, ix)[1] = {}

\* assert not self._level_graphs[-1].count_nonzero()
LevelGraphAssertion(g, ix) ==
    BuiltLevelGraphs(g, ix)[Len(BuiltLevelGraphs(g, ix))] = {}

\* The nodes the mask loop of _setup_tensors does not skip: those with a
\* predecessor whose information set is numbered.
MaskedNodes(g, ix) ==
    {node \in Members(ix.nodes) :
        /\ node \in DOMAIN predecessors(g)
        /\ Contains(ix.information_sets, PredecessorInformationSet(g, node))}

\* numpy.reciprocal
Reciprocal(x) == Div(One, x)

\* information_set_action_mask.T @ information_set_action_mask.sum(1)
ActionCountOfAction(mask, a) ==
    SumOver([e \in mask |-> Rat(Cardinality({f \in mask : f[1] = e[1]}), 1)],
            {e \in mask : e[2] = a})

\* A slip: the entry is written in the row of the predecessor.
node_player_mask_at_predecessor(g, ix) ==
    {<<IndexOf(ix.nodes, predecessors(g)[node]),
       IndexOf(ix.players,
               g.player_partition[PredecessorInformationSet(g, node)])>> :
        node \in MaskedNodes(g, ix)}

\* _node_player_mask as the mask loop of _setup_tensors leaves it: the
\* entries [v, i] set to True.
node_player_mask(g, ix) ==
    {<<IndexOf(ix.nodes, node),
       IndexOf(ix.players,
               g.player_partition[PredecessorInformationSet(g, node)])>> :
        node \in MaskedNodes(g, ix)}

\* _setup_tensors, after the level graphs.
setup_tensors(g, ix) ==
    LET built == BuiltLevelGraphs(g, ix)
        lgs   == SubSeq(built, 1, Len(built) - 1)
        anm   == {<<IndexOf(ix.actions,
                            <<PredecessorInformationSet(g, node),
                              g.action_partition[node]>>),
                    IndexOf(ix.nodes, node)>> : node \in MaskedNodes(g, ix)}
        isam  == {<<IndexOf(ix.information_sets,
                            PredecessorInformationSet(g, node)),
                    IndexOf(ix.actions,
                            <<PredecessorInformationSet(g, node),
                              g.action_partition[node]>>)>> :
                     node \in MaskedNodes(g, ix)}
        npm   == node_player_mask(g, ix)
        nat   == [v \in Indices(ix.nodes) |->
                    LET node == ix.nodes[v + 1]
                    IN IF /\ node \in DOMAIN predecessors(g)
                          /\ predecessors(g)[node]
                                 \in DOMAIN g.information_partition
                          /\ Contains(nature_information_sets(g),
                                      PredecessorInformationSet(g, node))
                       THEN g.nature_probabilities[
                                PredecessorInformationSet(g, node)][
                                g.action_partition[node]]
                       ELSE Zero]
        sp    == [a \in Indices(ix.actions) |->
                    Reciprocal(ActionCountOfAction(isam, a))]
    IN [graph |-> UNION {built[k] : k \in 1..Len(built)},
        level_graphs |-> lgs,
        action_node_mask |-> anm,
        information_set_action_mask |-> isam,
        node_player_mask |-> npm,
        nature_strategies |-> nat,
        default_strategy_profile |-> sp]

\* _setup_expected_payoffs
setup_expected_payoffs(g, ix) ==
    [v \in Indices(ix.nodes) |->
        [i \in Indices(ix.players) |->
            IF ix.nodes[v + 1] \in DOMAIN g.payoffs
            THEN Rat(g.payoffs[ix.nodes[v + 1]][ix.players[i + 1]], 1)
            ELSE Zero]]

\* _setup_excepted_reach_probabilities
setup_excepted_reach_probabilities(g, ix) ==
    [v \in Indices(ix.nodes) |->
        [i \in Indices(ix.players) |->
            IF v = IndexOf(ix.nodes, initial_node(g)) THEN One ELSE Zero]]

\* information_set_action_mask @ action_node_mask, its nonzero entries.
information_set_node_mask(isam, anm) ==
    LET count(h, v) ==
            Cardinality({a \in {e[2] : e \in isam} :
                            <<h, a>> \in isam /\ <<a, v>> \in anm})
        entries == {e \in {f[1] : f \in isam} \X {f[2] : f \in anm} :
                       count(e[1], e[2]) > 0}
    IN [e \in entries |-> Rat(count(e[1], e[2]), 1)]

\* information_set_action_mask.sum(1).ravel()
information_set_action_counts(ix, isam) ==
    [h \in Indices(ix.information_sets) |->
        Rat(Cardinality({e \in isam : e[1] = h}), 1)]

\* A slip: the chance probabilities are not added.
calculate_strategies_without_nature(ix, tn, strategy_profile) ==
    Dense([v \in Indices(ix.nodes) |->
        SumOver([e \in tn.action_node_mask |-> strategy_profile[e[1]]],
                {e \in tn.action_node_mask : e[2] = v})])

\* _calculate_strategies
calculate_strategies(ix, tn, strategy_profile) ==
    Dense([v \in Indices(ix.nodes) |->
        Add(SumOver([e \in tn.action_node_mask |-> strategy_profile[e[1]]],
                    {e \in tn.action_node_mask : e[2] = v}),
            tn.nature_strategies[v])])

RECURSIVE AccumulatePayoffs(_, _, _, _, _)
\* The loop of _calculate_expected_payoffs over the level graphs k, k-1, ..., 1.
AccumulatePayoffs(ix, lgs, strategies, ep, k) ==
    IF k = 0 THEN ep
    ELSE AccumulatePayoffs(ix, lgs, strategies,
             Dense([u \in Indices(ix.nodes) |->
                 [i \in Indices(ix.players) |->
                     Add(ep[u][i],
                         SumOver([e \in lgs[k] |->
                                     Mul(strategies[e[2]], ep[e[2]][i])],
                                 {e \in lgs[k] : e[1] = u}))]]),
             k - 1)

\* _calculate_expected_payoffs without the copy: += writes through to
\* _initial_expected_payoffs.
calculate_expected_payoffs_nocopy(ix, tn, initial, strategies) ==
    LET ep == AccumulatePayoffs(ix, tn.level_graphs, strategies, initial,
                                Len(tn.level_graphs))
    IN [expected_payoffs |-> ep, initial_expected_payoffs |-> ep]

\* _calculate_expected_payoffs: the two arrays after the call.
calculate_expected_payoffs(ix, tn, initial, strategies) ==
    [expected_payoffs |->
         AccumulatePayoffs(ix, tn.level_graphs, strategies, initial,
                           Len(tn.level_graphs)),
     initial_expected_payoffs |-> initial]

\* A slip: the entries of the mask are not set to 1.
excepted_strategies_unmasked(ix, tn, strategies) ==
    Dense([v \in Indices(ix.nodes) |->
        [i \in Indices(ix.players) |-> strategies[v]]])

\* _excepted_strategies: the broadcast strategies with 1 where the mask holds.
excepted_strategies(ix, tn, strategies) ==
    Dense([v \in Indices(ix.nodes) |->
        [i \in Indices(ix.players) |->
            IF <<v, i>> \in tn.node_player_mask THEN One ELSE strategies[v]]])

RECURSIVE AccumulateReach(_, _, _, _, _)
\* The loop of _calculate_excepted_reach_probabilities over the level graphs
\* k, k+1, ...
AccumulateReach(ix, lgs, es, rp, k) ==
    IF k > Len(lgs) THEN rp
    ELSE AccumulateReach(ix, lgs, es,
             Dense([v \in Indices(ix.nodes) |->
                 [i \in Indices(ix.players) |->
                     Add(rp[v][i],
                         Mul(SumOver([e \in lgs[k] |-> rp[e[1]][i]],
                                     {e \in lgs[k] : e[2] = v}),
                             es[v][i]))]]),
             k + 1)

\* _calculate_excepted_reach_probabilities: the two arrays after the call.
calculate_excepted_reach_probabilities(ix, tn, initial, es) ==
    [excepted_reach_probabilities |->
         AccumulateReach(ix, tn.level_graphs, es, initial, 1),
     initial_excepted_reach_probabilities |-> initial]

\* The entry [v, i] of the dense boolean _node_player_mask as a factor.
MaskValue(mask, v, i) == IF <<v, i>> \in mask THEN One ELSE Zero

\* A slip: the reach of every player is added up, the mask left out.
calculate_counterfactual_reach_probability_terms_unmasked(ix, tn, rp) ==
    Dense([v \in Indices(ix.nodes) |->
        SumOver([i \in Indices(ix.players) |-> rp[v][i]],
                Indices(ix.players))])

\* _calculate_counterfactual_reach_probability_terms
calculate_counterfactual_reach_probability_terms(ix, tn, rp) ==
    Dense([v \in Indices(ix.nodes) |->
        SumOver([i \in Indices(ix.players) |->
                    Mul(MaskValue(tn.node_player_mask, v, i), rp[v][i])],
                Indices(ix.players))])

\* A slip: the weighted profile is added without taking the average off.
calculate_average_strategy_profile_accumulating(ix, tn, isnm, counts, terms, sums, average, strategy_profile) ==
    LET probabilities ==
            Dense([h \in Indices(ix.information_sets) |->
                Div(SumOver([e \in DOMAIN isnm |-> Mul(isnm[e], terms[e[2]])],
                            {e \in DOMAIN isnm : e[1] = h}),
                    counts[h])])
        newsums == Dense([h \in Indices(ix.information_sets) |->
                       Add(sums[h], probabilities[h])])
    IN [counterfactual_reach_probabilities |-> probabilities,
        counterfactual_reach_probability_sums |-> newsums,
        average_strategy_profile |->
            [a \in Indices(ix.actions) |->
                Add(average[a],
                    Mul(SumOver([e \in tn.information_set_action_mask |->
                                    Div(probabilities[e[1]], newsums[e[1]])],
                                {e \in tn.information_set_action_mask :
                                    e[2] = a}),
                        strategy_profile[a]))]]

\* _calculate_average_strategy_profile: the three arrays after the call.
calculate_average_strategy_profile(ix, tn, isnm, counts, terms, sums, average, strategy_profile) ==
    LET probabilities ==
            Dense([h \in Indices(ix.information_sets) |->
                Div(SumOver([e \in DOMAIN isnm |-> Mul(isnm[e], terms[e[2]])],
                            {e \in DOMAIN isnm : e[1] = h}),
                    counts[h])])
        newsums == Dense([h \in Indices(ix.information_sets) |->
                       Add(sums[h], probabilities[h])])
    IN [counterfactual_reach_probabilities |-> probabilities,
        counterfactual_reach_probability_sums |-> newsums,
        average_strategy_profile |->
            [a \in Indices(ix.actions) |->
                Add(average[a],
                    Mul(SumOver([e \in tn.information_set_action_mask |->
                                    Div(probabilities[e[1]], newsums[e[1]])],
                                {e \in tn.information_set_action_mask :
                                    e[2] = a}),
                        Sub(strategy_profile[a], average[a])))]]

\* ndarray.clip(0)
Clip0(x) == IF Less(x, Zero) THEN Zero ELSE x

\* A slip: the average regrets are normalised without clip(0).
calculate_next_strategy_profile_unclipped(ix, tn, ep, terms, average_regrets, iteration_count) ==
    LET regrets ==
            Dense([v \in Indices(ix.nodes) |->
                SumOver([i \in Indices(ix.players) |->
                            Mul(MaskValue(tn.node_player_mask, v, i),
                                Sub(ep[v][i],
                                    SumOver([e \in tn.graph |-> ep[e[1]][i]],
                                            {e \in tn.graph : e[2] = v})))],
                        Indices(ix.players))])
        instantaneous ==
            Dense([a \in Indices(ix.actions) |->
                SumOver([e \in tn.action_node_mask |->
                            Mul(terms[e[2]], regrets[e[2]])],
                        {e \in tn.action_node_mask : e[1] = a})])
        averaged ==
            Dense([a \in Indices(ix.actions) |->
                Add(average_regrets[a],
                    Div(Sub(instantaneous[a], average_regrets[a]),
                        Rat(iteration_count + 1, 1)))])
        persets == Dense([h \in Indices(ix.information_sets) |->
                       SumOver([e \in tn.information_set_action_mask |->
                                   averaged[e[2]]],
                               {e \in tn.information_set_action_mask :
                                   e[1] = h})])
        quotient ==
            Dense([a \in Indices(ix.actions) |->
                Div(averaged[a],
                    SumOver([e \in tn.information_set_action_mask |->
                                persets[e[1]]],
                            {e \in tn.information_set_action_mask :
                                e[2] = a}))])
    IN [regrets |-> regrets,
        instantaneous_counterfactual_regrets |-> instantaneous,
        average_counterfactual_regrets |-> averaged,
        clipped_average_counterfactual_regrets |-> averaged,
        strategy_profile |->
            [a \in Indices(ix.actions) |->
                IF isnan(quotient[a]) THEN tn.default_strategy_profile[a]
                ELSE quotient[a]]]

\* _calculate_next_strategy_profile: the arrays after the call.
calculate_next_strategy_profile(ix, tn, ep, terms, average_regrets, iteration_count) ==
    LET regrets ==
            Dense([v \in Indices(ix.nodes) |->
                SumOver([i \in Indices(ix.players) |->
                            Mul(MaskValue(tn.node_player_mask, v, i),
                                Sub(ep[v][i],
                                    SumOver([e \in tn.graph |-> ep[e[1]][i]],
                                            {e \in tn.graph : e[2] = v})))],
                        Indices(ix.players))])
        instantaneous ==
            Dense([a \in Indices(ix.actions) |->
                SumOver([e \in tn.action_node_mask |->
                            Mul(terms[e[2]], regrets[e[2]])],
                        {e \in tn.action_node_mask : e[1] = a})])
        averaged ==
            Dense([a \in Indices(ix.actions) |->
                Add(average_regrets[a],
                    Div(Sub(instantaneous[a], average_regrets[a]),
                        Rat(iteration_count + 1, 1)))])
        clipped == Dense([a \in Indices(ix.actions) |-> Clip0(averaged[a])])
        \* information_set_action_mask @ clipped
        persets == Dense([h \in Indices(ix.information_sets) |->
                       SumOver([e \in tn.information_set_action_mask |->
                                   clipped[e[2]]],
                               {e \in tn.information_set_action_mask :
                                   e[1] = h})])
        quotient ==
            Dense([a \in Indices(ix.actions) |->
                Div(clipped[a],
                    SumOver([e \in tn.information_set_action_mask |->
                                persets[e[1]]],
                            {e \in tn.information_set_action_mask :
                                e[2] = a}))])
    IN [regrets |-> regrets,
        instantaneous_counterfactual_regrets |-> instantaneous,
        average_counterfactual_regrets |-> averaged,
        clipped_average_counterfactual_regrets |-> clipped,
        strategy_profile |->
            [a \in Indices(ix.actions) |->
                IF isnan(quotient[a]) THEN tn.default_strategy_profile[a]
                ELSE quotient[a]]]

(***************************************************************************)
(* Inputs of FiniteTree(...).                                              *)
(***************************************************************************)
RECURSIVE SortedSeq(_)
\* The members of a set of integers in ascending order.
SortedSeq(S) ==
    IF S = {} THEN <<>>
    ELSE LET m == CHOOSE x \in S : \A y \in S : x <= y
         IN <<m>> \o SortedSeq(S \ {m})

VertexIds == 1..MaxVertices

\* Partial functions from A to B.
PartialFunctions(A, B) == UNION {[D -> B] : D \in SUBSET A}

TreeArgs ==
    [vertices : {SortedSeq(S) : S \in SUBSET VertexIds},
     root     : VertexIds,
     leaves   : {SortedSeq(S) : S \in SUBSET VertexIds},
     parents  : PartialFunctions(VertexIds, VertexIds)]

(***************************************************************************)
(* Inputs of FiniteExtensiveFormGame(...).  The arguments are drawn in the *)
(* order __post_init__ reads them; an argument the constructor never gets  *)
(* to read, because an earlier check has raised, keeps a fixed value.      *)
(***************************************************************************)
InfoSetIds == {"h1", "h2"}
ActionIds == {"a", "b"}
PlayerIds == {"p1", "nature"}

Probabilities == {Rat(k, ProbDenominator) : k \in 0..ProbDenominator}
ProbTables == PartialFunctions(ActionIds, Probabilities)
PayoffTables == PartialFunctions(PlayerIds, {0})

GameVertexIds == 1..MaxGameVertices

\* The FiniteTree instances offered as game_tree: every tree on the vertices
\* 1..k with root 1 that FiniteTree(...) constructs.
GameTrees ==
    {t \in [vertices : {SortedSeq(1..k) : k \in GameVertexIds},
            root     : {1},
            leaves   : {SortedSeq(S) : S \in SUBSET GameVertexIds},
            parents  : PartialFunctions(GameVertexIds, GameVertexIds)] :
        FiniteTree_post_init(t) = "ok"}

\* Whether __post_init__ gets past the checks that raise one of the messages.
Passes(g, messages) == FiniteExtensiveFormGame_post_init(g) \notin messages

InformationChecks ==
    {"information partition not on decision nodes",
     "undefined infoset in information partition"}
ActionChecks ==
    {"action partition not on non-initial nodes",
     "undefined action in action partition"}
PlayerChecks ==
    {"nature not member of players",
     "player partition not on information sets",
     "undefined player in player partition"}
DomainChecks ==
    {"nature probabilities undefined for nature information sets",
     "payoffs undefined for terminal nodes",
     "actions not bijection with successors"}
NatureChecks == {"KeyError", "probabilities undefined for nature actions"}

\* The values of the arguments not drawn yet.
DefaultGameArgs(t) ==
    [game_tree |-> t,
     information_sets |-> <<>>,
     information_partition |-> <<>>,
     actions |-> <<>>,
     action_partition |-> <<>>,
     players |-> <<>>,
     nature |-> "None",
     player_partition |-> <<>>,
     nature_probabilities |-> <<>>,
     payoffs |-> <<>>]

\* One player who owns every information set, no nature, payoff 0 at every
\* leaf: the remaining arguments of a game whose partitions are being drawn.
WithOnePlayer(g) ==
    [g EXCEPT !.players = <<"p1">>,
              !.nature = "None",
              !.player_partition = [h \in Members(g.information_sets) |-> "p1"],
              !.nature_probabilities = <<>>,
              !.payoffs = [v \in Members(g.game_tree.leaves) |->
                              [p \in {"p1"} |-> 0]]]

\* The root in h1 and every other decision node in h2; the first child of a
\* node reached by a and every other child by b: the partitions of a game
\* whose remaining arguments are being drawn.
WithPartitions(g) ==
    LET t == g.game_tree
    IN [g EXCEPT
           !.information_sets = <<"h1", "h2">>,
           !.information_partition =
               [v \in Members(internal_vertices(t)) |->
                   IF v = t.root THEN "h1" ELSE "h2"],
           !.actions = <<"a", "b">>,
           !.action_partition =
               [c \in Members(non_roots(t)) |->
                   IF c = Head(children(t, t.parents[c])) THEN "a" ELSE "b"]]

\* game_args is g with the tables of payoffs drawn.
DrawPayoffs(g) ==
    \E po \in [DOMAIN g.payoffs -> PayoffTables] :
        game_args = [g EXCEPT !.payoffs = po]

\* ... with the tables of chance probabilities drawn.
DrawProbabilities(g) ==
    \E np \in [DOMAIN g.nature_probabilities -> ProbTables] :
        LET g1 == [g EXCEPT !.nature_probabilities = np]
        IN IF Passes(g1, NatureChecks) THEN DrawPayoffs(g1)
           ELSE game_args = g1

\* ... with the domain of payoffs drawn.
DrawPayoffDomain(g) ==
    \E P \in SUBSET Members(g.game_tree.vertices) :
        LET g1 == [g EXCEPT !.payoffs =
                       [v \in P |-> [p \in Members(RationalPlayers(g)) |-> 0]]]
        IN IF Passes(g1, DomainChecks) THEN DrawProbabilities(g1)
           ELSE game_args = g1

\* ... with the domain of nature_probabilities drawn.
DrawProbabilityDomain(g) ==
    \E D \in SUBSET InfoSetIds :
        LET g1 == [g EXCEPT !.nature_probabilities = [h \in D |-> <<>>]]
        IN IF Passes(g1, {"nature probabilities undefined for nature information sets"})
           THEN DrawPayoffDomain(g1)
           ELSE game_args = g1

\* ... with player_partition drawn.
DrawPlayerPartition(g) ==
    \E pp \in PartialFunctions(InfoSetIds, PlayerIds) :
        LET g1 == [g EXCEPT !.player_partition = pp]
        IN IF Passes(g1, PlayerChecks) THEN DrawProbabilityDomain(g1)
           ELSE game_args = g1

\* ... with players and nature drawn.
DrawPlayers(g) ==
    \E ps \in {<<"p1">>, <<"p1", "nature">>}, n \in {"None", "nature"} :
        LET g1 == [g EXCEPT !.players = ps, !.nature = n]
        IN IF Passes(g1, {"nature not member of players"})
           THEN DrawPlayerPartition(g1)
           ELSE game_args = g1

\* ... with actions and action_partition drawn.
DrawActions(g) ==
    \E A \in {<<"a">>, <<"a", "b">>},
       ap \in PartialFunctions(Members(g.game_tree.vertices), ActionIds) :
        game_args = WithOnePlayer([g EXCEPT !.actions = A,
                                            !.action_partition = ap])

\* ... with information_sets and information_partition drawn.
DrawInformation(g) ==
    \E H \in {<<"h1">>, <<"h1", "h2">>},
       ip \in PartialFunctions(Members(g.game_tree.vertices), InfoSetIds) :
        LET g1 == [g EXCEPT !.information_sets = H,
                            !.information_partition = ip]
        IN IF Passes(g1, InformationChecks) THEN DrawActions(g1)
           ELSE game_args = WithOnePlayer(g1)

\* The arguments offered with the game tree t: every information and action
\* partition with one player, and every player, nature, chance and payoff
\* argument with one pair of partitions.
DrawGameArgs(t) ==
    \/ DrawInformation(DefaultGameArgs(t))
    \/ DrawPlayers(WithPartitions(DefaultGameArgs(t)))

(***************************************************************************)
(* FiniteTree(...) as a state machine.                                     *)
(***************************************************************************)
\* The variables of a part of the program that a specification leaves out.
GameIdle ==
    /\ game_args = DefaultGameArgs([vertices |-> <<>>, root |-> 0,
                                    leaves |-> <<>>, parents |-> <<>>])
    /\ game_raised = "pending"
    /\ game = {}

\* No call on the solver yet.
NoCall == [method |-> "none", args |-> <<>>, raised |-> "ok", value |-> <<>>]

SolverIdle ==
    /\ solver_raised = "pending"
    /\ indices = <<>>
    /\ tensors = <<>>
    /\ buffers = <<>>
    /\ returned = NoCall
    /\ iterate_calls = 0

\* No sequence-form regret minimizer.
MinimizerIdle ==
    /\ process = <<>>
    /\ minimizer = <<>>
    /\ observe_calls = 0

\* No BestResponse and no ExpectedPayoffs.
ResponseIdle ==
    /\ profile = <<>>
    /\ responder = "None"
    /\ best_response = <<>>
    /\ expected = <<>>
    /\ answered = NoCall

OthersIdle ==
    /\ MinimizerIdle
    /\ ResponseIdle

TreeInit ==
    /\ tree_args \in TreeArgs
    /\ tree_raised = "pending"
    /\ finite_tree = {}
    /\ GameIdle
    /\ SolverIdle
    /\ OthersIdle

\* The call FiniteTree(vertices, root, leaves, parents): dataclass __init__
\* stores the fields, then __post_init__ validates; an exception leaves no
\* instance behind.
NewFiniteTree ==
    /\ tree_raised = "pending"
    /\ tree_raised' = FiniteTree_post_init(tree_args)
    /\ finite_tree' =
           IF FiniteTree_post_init(tree_args) = "ok" THEN {tree_args} ELSE {}
    /\ UNCHANGED tree_args
    /\ UNCHANGED game_vars
    /\ UNCHANGED solver_vars
    /\ UNCHANGED other_vars

TreeNext == NewFiniteTree

SpecTree == TreeInit /\ [][TreeNext]_vars

(***************************************************************************)
(* Claims about FiniteTree.                                                *)
(***************************************************************************)
\* The four conditions of the contract, stated on the arguments.
TreeConditions(t) ==
    /\ t.root \in Members(t.vertices)
    /\ Members(t.leaves) \subseteq Members(t.vertices)
    /\ DOMAIN t.parents = Members(t.vertices) \ {t.root}
    /\ {t.parents[c] : c \in DOMAIN t.parents}
           = Members(t.vertices) \ Members(t.leaves)

\* C1: FiniteTree construction succeeds if and only if root is a vertex,
\* leaves is a subset of vertices, the keys of parents are the non-root
\* vertices and the values of parents are the non-leaf vertices; otherwise a
\* ValueError is raised and no instance exists.
C1_ConstructionIffConditions ==
    tree_raised # "pending" =>
        /\ (tree_raised = "ok") <=> TreeConditions(tree_args)
        /\ TreeConditions(tree_args) => finite_tree = {tree_args}
        /\ ~TreeConditions(tree_args) => finite_tree = {}

C1_Witness ==
    /\ tree_raised = "ok"
    /\ Len(tree_args.vertices) = 3
    /\ Len(tree_args.leaves) = 2

RECURSIVE Ancestor(_, _, _)
\* The vertex reached from v by following parents k times (v itself where
\* there is no parent to follow).
Ancestor(t, v, k) ==
    IF k = 0 \/ v \notin DOMAIN t.parents THEN v
    ELSE Ancestor(t, t.parents[v], k - 1)

\* Following parents from v reaches the root within |vertices| steps.
ReachesRoot(t, v) == Ancestor(t, v, Len(t.vertices)) = t.root

\* C2: every successfully constructed FiniteTree is a rooted tree: from every
\* non-root vertex, following the parent function reaches the root.
C2_EveryVertexReachesRoot ==
    \A t \in finite_tree :
        \A v \in Members(t.vertices) : ReachesRoot(t, v)

(***************************************************************************)
(* FiniteExtensiveFormGame(...) as a state machine.                        *)
(***************************************************************************)
GameInit ==
    /\ tree_args \in GameTrees
    /\ tree_raised = "ok"
    /\ finite_tree = {tree_args}
    /\ DrawGameArgs(tree_args)
    /\ game_raised = "pending"
    /\ game = {}
    /\ SolverIdle
    /\ OthersIdle

\* The call FiniteExtensiveFormGame(...): __init__ stores the fields, then
\* __post_init__ validates; an exception leaves no instance behind.
NewFiniteExtensiveFormGame ==
    /\ game_raised = "pending"
    /\ game_raised' = FiniteExtensiveFormGame_post_init(game_args)
    /\ game' = IF FiniteExtensiveFormGame_post_init(game_args) = "ok"
               THEN {game_args} ELSE {}
    /\ UNCHANGED game_args
    /\ UNCHANGED tree_vars
    /\ UNCHANGED solver_vars
    /\ UNCHANGED other_vars

GameNext == NewFiniteExtensiveFormGame

SpecGame == GameInit /\ [][GameNext]_vars

(***************************************************************************)
(* Claims about FiniteExtensiveFormGame.                                   *)
(***************************************************************************)
ValueErrors ==
    InformationChecks \cup ActionChecks \cup PlayerChecks \cup DomainChecks
        \cup {"probabilities undefined for nature actions",
              "payoffs not defined for (rational) players"}

\* The contract's notions, stated on the arguments alone.
DecisionNodesOf(g) ==
    Members(g.game_tree.vertices) \ Members(g.game_tree.leaves)
NonRootsOf(g) == Members(g.game_tree.vertices) \ {g.game_tree.root}
ChildrenOf(g, v) == {c \in DOMAIN g.game_tree.parents : g.game_tree.parents[c] = v}
NatureOwned(g) ==
    {h \in Members(g.information_sets) \cap DOMAIN g.player_partition :
        g.player_partition[h] = g.nature}
\* The actions labelling the children of the decision nodes mapped to h.
MenuOf(g, h) ==
    {g.action_partition[c] :
        c \in {c \in DOMAIN g.action_partition \cap DOMAIN g.game_tree.parents :
                  /\ g.game_tree.parents[c] \in DOMAIN g.information_partition
                  /\ g.information_partition[g.game_tree.parents[c]] = h}}

\* One of the violations the contract lists.
ListedViolation(g) ==
    \/ DOMAIN g.information_partition # DecisionNodesOf(g)
    \/ \E v \in DOMAIN g.information_partition :
           g.information_partition[v] \notin Members(g.information_sets)
    \/ DOMAIN g.action_partition # NonRootsOf(g)
    \/ \E v \in DOMAIN g.action_partition :
           g.action_partition[v] \notin Members(g.actions)
    \/ g.nature # "None" /\ g.nature \notin Members(g.players)
    \/ DOMAIN g.player_partition # Members(g.information_sets)
    \/ \E h \in DOMAIN g.player_partition :
           g.player_partition[h] \notin Members(g.players)
    \/ DOMAIN g.nature_probabilities # NatureOwned(g)
    \/ \E h \in DOMAIN g.nature_probabilities \cap NatureOwned(g) :
           DOMAIN g.nature_probabilities[h] # MenuOf(g, h)
    \/ DOMAIN g.payoffs # Members(g.game_tree.leaves)
    \/ \E v \in DOMAIN g.payoffs :
           DOMAIN g.payoffs[v] # Members(g.players) \ {g.nature}

\* C3: FiniteExtensiveFormGame construction fails with a validation error
\* (a ValueError) and produces no instance whenever one of the listed
\* violations holds of the arguments.
C3_ListedViolationRaisesValueError ==
    (game_raised # "pending" /\ ListedViolation(game_args)) =>
        (game_raised \in ValueErrors /\ game = {})

\* What the code does guarantee there: the call does not return an instance.
ListedViolationLeavesNoInstance ==
    (game_raised # "pending" /\ ListedViolation(game_args)) =>
        (game_raised # "ok" /\ game = {})

\* C4: construction fails whenever the chance probabilities of some nature
\* information set do not sum to 1, so in every constructed game the
\* probabilities of each nature information set sum to 1.
C4_ChanceProbabilitiesSumToOne ==
    \A g \in game :
        \A h \in DOMAIN g.nature_probabilities :
            SumOver(g.nature_probabilities[h],
                    DOMAIN g.nature_probabilities[h]) = One

\* The labels of the children of d are pairwise distinct.
DistinctLabels(g, d) ==
    \A c1, c2 \in ChildrenOf(g, d) :
        c1 # c2 => g.action_partition[c1] # g.action_partition[c2]
LabelsOf(g, d) == {g.action_partition[c] : c \in ChildrenOf(g, d)}

\* The partitions are defined where the menus read them.
PartitionsDefined(g) ==
    /\ DOMAIN g.information_partition = DecisionNodesOf(g)
    /\ DOMAIN g.action_partition = NonRootsOf(g)

MenusAgree(g) ==
    \A d \in DecisionNodesOf(g) :
        /\ DistinctLabels(g, d)
        /\ \A e \in DecisionNodesOf(g) :
               g.information_partition[e] = g.information_partition[d]
                   => LabelsOf(g, e) = LabelsOf(g, d)

\* C5: in every constructed game, the action labels of the children of each
\* decision node are pairwise distinct and are exactly the available actions
\* of the node's information set, so that the decision nodes of one
\* information set have the same menu; construction fails if some decision
\* node violates this.
C5_ActionMenus ==
    /\ \A g \in game :
           /\ MenusAgree(g)
           /\ \A d \in DecisionNodesOf(g) :
                  LET h == g.information_partition[d]
                  IN /\ h \in DOMAIN available_actions(g)
                     /\ LabelsOf(g, d) = Members(available_actions(g)[h])
                     /\ Len(available_actions(g)[h])
                            = Cardinality(ChildrenOf(g, d))
    /\ (game_raised # "pending" /\ PartitionsDefined(game_args)
            /\ ~MenusAgree(game_args))
           => (game = {} /\ game_raised # "ok")

\* A constructed game on a rooted tree in which two decision nodes share an
\* information set.
C5_Witness ==
    \E g \in game :
        /\ \A v \in Members(g.game_tree.vertices) : ReachesRoot(g.game_tree, v)
        /\ \E d, e \in DecisionNodesOf(g) :
               /\ d # e
               /\ g.information_partition[d] = g.information_partition[e]

(***************************************************************************)
(* CounterfactualRegretMinimization as a state machine.                    *)
(***************************************************************************)
\* iterate() is called at most MaxIterations times on a solver.
MaxIterations == 2
\* Terminal payoffs of the first player of the larger games are 0..MaxPayoff.
MaxPayoff == 1

\* What __post_init__ leaves behind: the exception _setup raised, or "ok" and
\* the fields _setup_indices, _setup_tensors and _setup_iteration assigned.
setup(g) ==
    IF SetupIndicesRaises(g)
    THEN [raised |-> "KeyError", indices |-> <<>>, tensors |-> <<>>,
          buffers |-> <<>>]
    ELSE IF ~LevelGraphAssertion(g, setup_indices(g))
    THEN [raised |-> "AssertionError", indices |-> <<>>, tensors |-> <<>>,
          buffers |-> <<>>]
    ELSE
    LET ix == setup_indices(g)
        tn == setup_tensors(g, ix)
    IN [raised  |-> "ok",
        indices |-> ix,
        tensors |->
            tn @@ [initial_expected_payoffs |-> setup_expected_payoffs(g, ix),
                   initial_excepted_reach_probabilities |->
                       setup_excepted_reach_probabilities(g, ix),
                   information_set_node_mask |->
                       information_set_node_mask(
                           tn.information_set_action_mask,
                           tn.action_node_mask),
                   information_set_action_counts |->
                       information_set_action_counts(
                           ix, tn.information_set_action_mask)],
        buffers |->
            [strategy_profile |-> tn.default_strategy_profile,
             iteration_count |-> 0,
             counterfactual_reach_probability_sums |->
                 [h \in Indices(ix.information_sets) |-> Zero],
             average_strategy_profile |-> [a \in Indices(ix.actions) |-> Zero],
             average_counterfactual_regrets |->
                 [a \in Indices(ix.actions) |-> Zero],
             strategies |-> <<>>,
             expected_payoffs |-> <<>>,
             excepted_strategies |-> <<>>,
             excepted_reach_probabilities |-> <<>>,
             counterfactual_reach_probability_terms |-> <<>>,
             counterfactual_reach_probabilities |-> <<>>,
             regrets |-> <<>>,
             instantaneous_counterfactual_regrets |-> <<>>,
             clipped_average_counterfactual_regrets |-> <<>>]]

\* The strategies step 1 of iterate() computes.
StrategiesOf(ix, tn, bf) == calculate_strategies(ix, tn, bf.strategy_profile)

\* The steps of iterate() after step 2 has left the arrays ep, with the
\* iteration count the call leaves: the solver's arrays after the call.
IterateWith(ix, tn, bf, ep, count) ==
    LET strategies == StrategiesOf(ix, tn, bf)
        es == excepted_strategies(ix, tn, strategies)
        rp == calculate_excepted_reach_probabilities(
                  ix, tn, tn.initial_excepted_reach_probabilities, es)
        terms == calculate_counterfactual_reach_probability_terms(
                     ix, tn, rp.excepted_reach_probabilities)
        avg == calculate_average_strategy_profile(
                   ix, tn, tn.information_set_node_mask,
                   tn.information_set_action_counts, terms,
                   bf.counterfactual_reach_probability_sums,
                   bf.average_strategy_profile, bf.strategy_profile)
        nxt == calculate_next_strategy_profile(
                   ix, tn, ep.expected_payoffs, terms,
                   bf.average_counterfactual_regrets, bf.iteration_count)
    IN [tensors |->
            [tn EXCEPT
                !.initial_expected_payoffs = ep.initial_expected_payoffs,
                !.initial_excepted_reach_probabilities =
                    rp.initial_excepted_reach_probabilities],
        buffers |->
            [strategy_profile |-> nxt.strategy_profile,
             iteration_count |-> count,
             counterfactual_reach_probability_sums |->
                 avg.counterfactual_reach_probability_sums,
             average_strategy_profile |-> avg.average_strategy_profile,
             average_counterfactual_regrets |->
                 nxt.average_counterfactual_regrets,
             strategies |-> strategies,
             expected_payoffs |-> ep.expected_payoffs,
             excepted_strategies |-> es,
             excepted_reach_probabilities |-> rp.excepted_reach_probabilities,
             counterfactual_reach_probability_terms |-> terms,
             counterfactual_reach_probabilities |->
                 avg.counterfactual_reach_probabilities,
             regrets |-> nxt.regrets,
             instantaneous_counterfactual_regrets |->
                 nxt.instantaneous_counterfactual_regrets,
             clipped_average_counterfactual_regrets |->
                 nxt.clipped_average_counterfactual_regrets]]

\* iterate() without the last statement, self._iteration_count += 1.
iterate_no_count(ix, tn, bf) ==
    IterateWith(ix, tn, bf,
                calculate_expected_payoffs(ix, tn, tn.initial_expected_payoffs,
                                           StrategiesOf(ix, tn, bf)),
                bf.iteration_count)

\* iterate() whose step 2 accumulates into _initial_expected_payoffs.
iterate_nocopy(ix, tn, bf) ==
    IterateWith(ix, tn, bf,
                calculate_expected_payoffs_nocopy(
                    ix, tn, tn.initial_expected_payoffs,
                    StrategiesOf(ix, tn, bf)),
                bf.iteration_count + 1)

\* iterate()
iterate(ix, tn, bf) ==
    IterateWith(ix, tn, bf,
                calculate_expected_payoffs(ix, tn, tn.initial_expected_payoffs,
                                           StrategiesOf(ix, tn, bf)),
                bf.iteration_count + 1)

\* get_average_strategy(information_set, action)
get_average_strategy(ix, bf, information_set, action) ==
    IF ~Contains(ix.actions, <<information_set, action>>)
    THEN [raised |-> "KeyError", value |-> <<>>]
    ELSE [raised |-> "ok",
          value  |-> bf.average_strategy_profile[
                         IndexOf(ix.actions, <<information_set, action>>)]]

\* The complete binary tree of depth 2.
BinaryTree ==
    [vertices |-> <<1, 2, 3, 4, 5, 6, 7>>,
     root     |-> 1,
     leaves   |-> <<4, 5, 6, 7>>,
     parents  |-> (2 :> 1 @@ 3 :> 1 @@ 4 :> 2 @@ 5 :> 2 @@ 6 :> 3 @@ 7 :> 3)]

\* A root with a leaf and an internal child that has two leaves.
LopsidedTree ==
    [vertices |-> <<1, 2, 3, 4, 5>>,
     root     |-> 1,
     leaves   |-> <<3, 4, 5>>,
     parents  |-> (2 :> 1 @@ 3 :> 1 @@ 4 :> 2 @@ 5 :> 2)]

\* A two-player zero-sum game on BinaryTree: p1 moves at the root, p2 at both
\* children, which share an information set or not; the game may declare a
\* further information set of p1 under which no node lies.
TwoPlayerGame(split, extra, u) ==
        LET H == <<"h1", "h2">> \o (IF split THEN <<"h3">> ELSE <<>>)
                     \o (IF extra THEN <<"h4">> ELSE <<>>)
        IN
            [game_tree |-> BinaryTree,
             information_sets |-> H,
             information_partition |->
                 (1 :> "h1" @@ 2 :> "h2"
                    @@ 3 :> (IF split THEN "h3" ELSE "h2")),
             actions |-> <<"a", "b">>,
             action_partition |->
                 (2 :> "a" @@ 3 :> "b" @@ 4 :> "a" @@ 5 :> "b"
                    @@ 6 :> "a" @@ 7 :> "b"),
             players |-> <<"p1", "p2">>,
             nature |-> "None",
             player_partition |->
                 [h \in Members(H) |->
                     IF h \in {"h1", "h4"} THEN "p1" ELSE "p2"],
             nature_probabilities |-> <<>>,
             payoffs |->
                 [v \in Members(BinaryTree.leaves) |->
                     ("p1" :> u[v] @@ "p2" :> -u[v])]]

DrawTwoPlayerGame ==
    \E split \in BOOLEAN, extra \in BOOLEAN,
       u \in [Members(BinaryTree.leaves) -> 0..MaxPayoff] :
        game_args = TwoPlayerGame(split, extra, u)

\* A one-player game on LopsidedTree: nature moves at the root with the
\* probabilities np, p1 at the internal child.
NatureGame(np, u) ==
            [game_tree |-> LopsidedTree,
             information_sets |-> <<"h1", "h2">>,
             information_partition |-> (1 :> "h1" @@ 2 :> "h2"),
             actions |-> <<"a", "b">>,
             action_partition |->
                 (2 :> "a" @@ 3 :> "b" @@ 4 :> "a" @@ 5 :> "b"),
             players |-> <<"nature", "p1">>,
             nature |-> "nature",
             player_partition |-> ("h1" :> "nature" @@ "h2" :> "p1"),
             nature_probabilities |-> ("h1" :> np),
             payoffs |->
                 [v \in Members(LopsidedTree.leaves) |-> ("p1" :> u[v])]]

DrawNatureGame ==
    \E np \in [{"a", "b"} -> Probabilities],
       u \in [Members(LopsidedTree.leaves) -> 0..MaxPayoff] :
        game_args = NatureGame(np, u)

\* The games handed to the solver: every game that
\* FiniteExtensiveFormGame(...) constructs from the offered information and
\* action partitions, and from the two larger families.
CFRInit ==
    /\ \/ \E t \in GameTrees : DrawInformation(DefaultGameArgs(t))
       \/ DrawTwoPlayerGame
       \/ DrawNatureGame
    /\ FiniteExtensiveFormGame_post_init(game_args) = "ok"
    /\ tree_args = game_args.game_tree
    /\ tree_raised = "ok"
    /\ finite_tree = {tree_args}
    /\ game_raised = "ok"
    /\ game = {game_args}
    /\ SolverIdle
    /\ OthersIdle

\* The call CounterfactualRegretMinimization(game): __init__ stores game,
\* then __post_init__ runs _setup; an exception leaves no solver behind.
NewCounterfactualRegretMinimization ==
    /\ solver_raised = "pending"
    /\ \E g \in game : \E made \in {setup(g)} :
           /\ solver_raised' = made.raised
           /\ indices' = made.indices
           /\ tensors' = made.tensors
           /\ buffers' = made.buffers
           /\ returned' = [method |-> "__init__", args |-> <<>>,
                           raised |-> made.raised, value |-> <<>>]
    /\ UNCHANGED iterate_calls
    /\ UNCHANGED <<tree_vars, game_vars>>
    /\ UNCHANGED other_vars

\* iterate() can be called: there is a solver, and the model has calls left.
\* The method itself has no precondition and raises nothing.
CanIterate ==
    /\ solver_raised = "ok"
    /\ buffers.iteration_count < MaxIterations

\* The call solver.iterate().
Iterate ==
    /\ CanIterate
    /\ \E after \in {iterate(indices, tensors, buffers)} :
          /\ tensors' = after.tensors
          /\ buffers' = after.buffers
    /\ returned' = [method |-> "iterate", args |-> <<>>, raised |-> "ok",
                    value |-> <<>>]
    /\ iterate_calls' = iterate_calls + 1
    /\ UNCHANGED <<solver_raised, indices>>
    /\ UNCHANGED <<tree_vars, game_vars>>
    /\ UNCHANGED other_vars

\* The read solver.iteration_count.
QueryIterationCount ==
    /\ solver_raised = "ok"
    /\ returned' = [method |-> "iteration_count", args |-> <<>>,
                    raised |-> "ok", value |-> <<buffers.iteration_count>>]
    /\ UNCHANGED <<solver_raised, indices, tensors, buffers, iterate_calls>>
    /\ UNCHANGED <<tree_vars, game_vars>>
    /\ UNCHANGED other_vars

\* The call solver.get_average_strategy(h, a) for an information set and an
\* action the game declares.
QueryAverageStrategy ==
    /\ solver_raised = "ok"
    /\ \E h \in Members(game_args.information_sets),
          a \in Members(game_args.actions) :
        LET got == get_average_strategy(indices, buffers, h, a)
        IN returned' = [method |-> "get_average_strategy", args |-> <<h, a>>,
                        raised |-> got.raised, value |-> got.value]
    /\ UNCHANGED <<solver_raised, indices, tensors, buffers, iterate_calls>>
    /\ UNCHANGED <<tree_vars, game_vars>>
    /\ UNCHANGED other_vars

CFRNext ==
    \/ NewCounterfactualRegretMinimization
    \/ Iterate
    \/ QueryIterationCount
    \/ QueryAverageStrategy

SpecCFR == CFRInit /\ [][CFRNext]_vars

(***************************************************************************)
(* Claims about CounterfactualRegretMinimization.                          *)
(***************************************************************************)
\* The solver exists and can be called.
Ready == solver_raised = "ok"

\* The information sets of the game that nature does not own.
NonNatureInformationSets(g) ==
    {h \in Members(g.information_sets) :
        h \notin DOMAIN g.player_partition
            \/ g.player_partition[h] # g.nature}

\* The actions offered at the information set h of g: the labels of the
\* children of the decision nodes in h.
MenuAt(g, h) ==
    {g.action_partition[c] :
        c \in {c \in DOMAIN g.game_tree.parents :
                  /\ g.game_tree.parents[c] \in DOMAIN g.information_partition
                  /\ g.information_partition[g.game_tree.parents[c]] = h}}

\* 1 / |availableActions(h)|
UniformAt(g, h) == Rat(1, Cardinality(MenuAt(g, h)))

\* The current strategy of the solver at (h, a).
CurrentStrategy(h, a) ==
    IF Contains(indices.actions, <<h, a>>)
    THEN buffers.strategy_profile[IndexOf(indices.actions, <<h, a>>)]
    ELSE NaN

\* C6: for every validated game, also one that declares an information set
\* under which no decision node lies, the constructor of the solver returns
\* without an exception, and the state it leaves has the iteration count 0
\* and the current strategy 1/|availableActions(h)| at every pair (h, a) of
\* a non-nature information set and one of its actions.
C6_SetupCompletesWithUniformStrategy ==
    returned.method = "__init__" =>
        /\ Ready
        /\ buffers.iteration_count = 0
        /\ \A h \in NonNatureInformationSets(game_args) :
              \A a \in MenuAt(game_args, h) :
                  CurrentStrategy(h, a) = UniformAt(game_args, h)

\* Every non-nature information set of the game has a decision node.
NoEmptyInformationSet(g) ==
    \A h \in NonNatureInformationSets(g) : MenuAt(g, h) # {}

\* Setup on a game without empty information sets does what C6 says.
SetupOfInhabitedGameIsUniform ==
    (returned.method = "__init__" /\ NoEmptyInformationSet(game_args)) =>
        /\ Ready
        /\ buffers.iteration_count = 0
        /\ \A h \in NonNatureInformationSets(game_args) :
              \A a \in MenuAt(game_args, h) :
                  CurrentStrategy(h, a) = UniformAt(game_args, h)

\* C7: a call get_average_strategy(h, a) made after setup and before any
\* iterate() call, for a non-nature information set h and one of its
\* actions a, returns 1/|availableActions(h)|.
C7_AverageStrategyIsUniformBeforeIterate ==
    (/\ returned.method = "get_average_strategy"
     /\ iterate_calls = 0
     /\ returned.args[1] \in NonNatureInformationSets(game_args)
     /\ returned.args[2] \in MenuAt(game_args, returned.args[1])) =>
        /\ returned.raised = "ok"
        /\ returned.value = UniformAt(game_args, returned.args[1])

\* The values get_average_strategy(h, .) returns in the current state.
AverageStrategyAt(h) ==
    [a \in MenuAt(game_args, h) |->
        get_average_strategy(indices, buffers, h, a).value]

\* C8: in every state of a solver, after zero or more iterate() calls, at
\* every non-nature information set h no value of averageStrategy(h, .) is
\* NaN and the values sum to 1.
C8_AverageStrategySumsToOne ==
    Ready =>
        \A h \in NonNatureInformationSets(game_args) :
            /\ \A a \in MenuAt(game_args, h) : ~isnan(AverageStrategyAt(h)[a])
            /\ SumOver(AverageStrategyAt(h), MenuAt(game_args, h)) = One

\* The statement of C8 for the states after at least one iterate() call.
AverageStrategySumsToOneAfterIterate ==
    (Ready /\ iterate_calls > 0) =>
        \A h \in NonNatureInformationSets(game_args) :
            /\ \A a \in MenuAt(game_args, h) : ~isnan(AverageStrategyAt(h)[a])
            /\ SumOver(AverageStrategyAt(h), MenuAt(game_args, h)) = One

\* ... and for the information sets whose cumulative counterfactual reach
\* is not zero.
AverageStrategySumsToOneWhereReached ==
    (Ready /\ iterate_calls > 0) =>
        \A h \in NonNatureInformationSets(game_args) :
            buffers.counterfactual_reach_probability_sums[
                IndexOf(indices.information_sets, h)] # Zero =>
                /\ \A a \in MenuAt(game_args, h) :
                      ~isnan(AverageStrategyAt(h)[a])
                /\ SumOver(AverageStrategyAt(h), MenuAt(game_args, h)) = One

\* A step in which the iteration count moves by as much as the call allows:
\* 0 at the end of the constructor, one more at the end of iterate(), the
\* same at the end of any other call.
CountStep ==
    /\ (returned'.method = "__init__" /\ Ready') =>
           buffers'.iteration_count = 0
    /\ (Ready /\ returned'.method = "iterate") =>
           buffers'.iteration_count = buffers.iteration_count + 1
    /\ (Ready /\ returned'.method \notin {"__init__", "iterate"}) =>
           buffers'.iteration_count = buffers.iteration_count

\* C9: the iteration count is 0 after setup, grows by exactly 1 in every
\* iterate() call and in no other call, so that it always equals the number
\* of iterate() calls that have returned; and iterate() can be called in
\* every state of a solver (below the bound MaxIterations of the model) and
\* returns there.  Iterate assigns every variable, so it is enabled exactly
\* where CanIterate holds and iterate(...) has a value.
C9_IterationCountCountsIterateCalls ==
    /\ [](Ready => buffers.iteration_count = iterate_calls)
    /\ [][CountStep]_vars
    /\ []((Ready /\ iterate_calls < MaxIterations) =>
             /\ CanIterate
             /\ DOMAIN iterate(indices, tensors, buffers).buffers
                    = DOMAIN buffers)

C9_Witness ==
    /\ Ready
    /\ returned.method = "iterate"
    /\ iterate_calls = MaxIterations
    /\ buffers.iteration_count = MaxIterations

\* A step that keeps what its call must not write: iterate() the game and
\* everything setup compiled, a query the whole state of the solver too.
FrameStep ==
    /\ returned'.method = "iterate" =>
           /\ UNCHANGED <<tree_args, finite_tree, game_args, game>>
           /\ indices' = indices
           /\ tensors' = tensors
    /\ returned'.method \in {"iteration_count", "get_average_strategy"} =>
           /\ UNCHANGED <<tree_args, finite_tree, game_args, game>>
           /\ UNCHANGED <<solver_raised, indices, tensors, buffers>>

\* C10: iterate() leaves the game and all compiled data as they were (the
\* index maps, the graph and the level graphs, the three masks, the nature
\* strategies, the default strategy and the initial payoff and reach
\* arrays), and the queries iteration_count and get_average_strategy leave
\* every part of the solver's state as it was.
C10_IterateAndQueriesKeepFrame == [][FrameStep]_vars

C10_Witness ==
    /\ Ready
    /\ iterate_calls > 0
    /\ returned.method = "get_average_strategy"
    /\ returned.raised = "ok"
    /\ \E v \in DOMAIN buffers.expected_payoffs :
          \E i \in DOMAIN buffers.expected_payoffs[v] :
              buffers.expected_payoffs[v][i]
                  # tensors.initial_expected_payoffs[v][i]

(***************************************************************************)
(* utilities.py: the wrapper of a tree-form sequential decision process.   *)
(* The wrapped object comes from the noregret library; here it is the      *)
(* record of the attributes the wrapper reads: nodes, node_types,          *)
(* decision_points, actions, signals, transitions, parent_sequences and    *)
(* sequences.  The empty sequence () is <<>>, a sequence (j, a) is the     *)
(* pair <<j, a>>.  A dense array over sequences is a function on 0..n-1.   *)
(***************************************************************************)
DECISION_POINT == "decision point"
OBSERVATION_POINT == "observation point"
END_OF_THE_DECISION_PROCESS == "end of the decision process"

RECURSIVE LevelSequences(_, _)
\* __post_init__, first loop: the list sequences of one level.
LevelSequences(p, queue) ==
    IF queue = <<>> THEN <<>>
    ELSE LET n == Head(queue)
         IN (IF p.node_types[n] = DECISION_POINT
             THEN [i \in 1..Len(p.actions[n]) |->
                      IndexOf(p.sequences, <<n, p.actions[n][i]>>)]
             ELSE <<>>)
            \o LevelSequences(p, Tail(queue))

RECURSIVE LevelParentSequences(_, _)
\* ... the list parent_sequences of one level.
LevelParentSequences(p, queue) ==
    IF queue = <<>> THEN <<>>
    ELSE LET n == Head(queue)
         IN (IF p.node_types[n] = DECISION_POINT
             THEN [i \in 1..Len(p.actions[n]) |->
                      IndexOf(p.sequences, p.parent_sequences[n])]
             ELSE <<>>)
            \o LevelParentSequences(p, Tail(queue))

RECURSIVE NextQueue(_, _)
\* ... the list next_queue of one level.
NextQueue(p, queue) ==
    IF queue = <<>> THEN <<>>
    ELSE LET n == Head(queue)
         IN (IF p.node_types[n] = DECISION_POINT
             THEN [i \in 1..Len(p.actions[n]) |->
                      p.transitions[<<n, p.actions[n][i]>>]]
             ELSE IF p.node_types[n] = OBSERVATION_POINT
             THEN [i \in 1..Len(p.signals[n]) |->
                      p.transitions[<<n, p.signals[n][i]>>]]
             ELSE <<>>)
            \o NextQueue(p, Tail(queue))

RECURSIVE LevelsFrom(_, _)
\* ... the while loop: level_sources, level_sequences and
\* level_parent_sequences, one record per level.
LevelsFrom(p, queue) ==
    IF queue = <<>> THEN <<>>
    ELSE <<[sources |-> [i \in 1..Len(queue) |-> IndexOf(p.nodes, queue[i])],
            sequences |-> LevelSequences(p, queue),
            parent_sequences |-> LevelParentSequences(p, queue)]>>
         \o LevelsFrom(p, NextQueue(p, queue))

levels(p) == LevelsFrom(p, <<p.nodes[1]>>)

\* The events of a node: its actions or its signals; a node that ends the
\* process has none.
Events(p, n) ==
    IF p.node_types[n] = DECISION_POINT THEN p.actions[n]
    ELSE IF p.node_types[n] = OBSERVATION_POINT THEN p.signals[n]
    ELSE <<>>

\* __post_init__: the entries of graph, all 1, as pairs <<source, target>>.
process_graph(p) ==
    {<<IndexOf(p.nodes, n), IndexOf(p.nodes, p.transitions[<<n, e>>])>> :
        <<n, e>> \in {x \in DOMAIN p.transitions :
                         Contains(Events(p, x[1]), x[2])}}

\* __post_init__: the entries of graph2, all 1, as pairs <<source, sequence>>.
process_graph2(p) ==
    {<<IndexOf(p.nodes, x[1]), IndexOf(p.sequences, x)>> :
        x \in {x \in DOMAIN p.transitions :
                  /\ p.node_types[x[1]] = DECISION_POINT
                  /\ Contains(p.actions[x[1]], x[2])}}

\* The index arrays behavioral (sources, targets), behavioral2 (sources,
\* sequences) and counterfactual, by the position in sequences[1:].
BehavioralSource(p, s) == IndexOf(p.nodes, p.sequences[s + 2][1])
BehavioralTarget(p, s) == IndexOf(p.nodes, p.transitions[p.sequences[s + 2]])
counterfactual(p, s) == IndexOf(p.nodes, p.transitions[p.sequences[s + 2]])

\* The positions of sequences[1:].
BehavioralIndices(p) == 0..(Len(p.sequences) - 2)

\* behavioral_uniform_strategy
behavioral_uniform_strategy(p) ==
    [s \in BehavioralIndices(p) |->
        Rat(1, Len(p.actions[p.sequences[s + 2][1]]))]

RECURSIVE ScaleLevels(_, _)
\* A slip: only the first level is multiplied by its parents.
ScaleLevels_first_level(strategy, ls) ==
    IF ls = <<>> THEN strategy
    ELSE LET l == Head(ls)
         IN Dense([s \in DOMAIN strategy |->
                IF Contains(l.sequences, s)
                THEN Mul(strategy[s],
                         strategy[l.parent_sequences[
                             IndexOf(l.sequences, s) + 1]])
                ELSE strategy[s]])

\* behavioral_to_sequence_form, the loop: strategy[sequences] *=
\* strategy[parent_sequences], level by level.
ScaleLevels(strategy, ls) ==
    IF ls = <<>> THEN strategy
    ELSE LET l == Head(ls)
             scaled ==
                 Dense([s \in DOMAIN strategy |->
                     IF Contains(l.sequences, s)
                     THEN Mul(strategy[s],
                              strategy[l.parent_sequences[
                                  IndexOf(l.sequences, s) + 1]])
                     ELSE strategy[s]])
         IN ScaleLevels(scaled, Tail(ls))

\* behavioral_to_sequence_form
behavioral_to_sequence_form(p, behavioral_strategy) ==
    ScaleLevels([s \in Indices(p.sequences) |->
                    IF s = 0 THEN One ELSE behavioral_strategy[s - 1]],
                levels(p))

\* graph[self.behavioral] = behavioral_strategy: the value stored at an entry
\* of the copy of graph.
GraphValue(p, behavioral_strategy, e) ==
    LET S == {s \in BehavioralIndices(p) :
                 <<BehavioralSource(p, s), BehavioralTarget(p, s)>> = e}
    IN IF S = {} THEN One
       ELSE behavioral_strategy[CHOOSE s \in S : \A r \in S : r <= s]

\* graph2[self.behavioral2] = behavioral_strategy
Graph2Value(p, behavioral_strategy, e) == behavioral_strategy[e[2] - 1]

RECURSIVE BackUp(_, _, _, _, _)
\* counterfactual_utilities, the loop over reversed(level_sources); ls is the
\* list of levels not visited yet, deepest last.
BackUp(p, behavioral_strategy, utility, V, ls) ==
    IF ls = <<>> THEN V
    ELSE LET l == ls[Len(ls)]
             graph == process_graph(p)
             graph2 == process_graph2(p)
             next ==
                 Dense([n \in DOMAIN V |->
                     IF Contains(l.sources, n)
                     THEN Add(SumOver([e \in graph |->
                                          Mul(GraphValue(p, behavioral_strategy, e),
                                              V[e[2]])],
                                      {e \in graph : e[1] = n}),
                              SumOver([e \in graph2 |->
                                          Mul(Graph2Value(p, behavioral_strategy, e),
                                              utility[e[2]])],
                                      {e \in graph2 : e[1] = n}))
                     ELSE V[n]])
         IN BackUp(p, behavioral_strategy, utility, next,
                   SubSeq(ls, 1, Len(ls) - 1))

\* counterfactual_utilities
counterfactual_utilities(p, behavioral_strategy, utility) ==
    LET V == BackUp(p, behavioral_strategy, utility,
                    [n \in Indices(p.nodes) |-> Zero], levels(p))
    IN Dense([s \in BehavioralIndices(p) |->
                 Add(utility[s + 1], V[counterfactual(p, s)])])

(***************************************************************************)
(* regret_minimizers.py: sequence-form counterfactual regret minimization. *)
(* What the base class SequenceFormPolytopeRegretMinimizer of noregret     *)
(* keeps (previous and average strategy, cumulative utility) is read by    *)
(* no method of this file and is left out, except the list strategies.     *)
(***************************************************************************)
VANILLA == "CounterfactualRegretMinimization"
PLUS == "CounterfactualRegretMinimizationPlus"

\* __post_init__: the entries of mask, all 1, as pairs <<node, sequence>>.
minimizer_mask(p) ==
    {<<IndexOf(p.decision_points, x[1]), IndexOf(p.sequences, x) - 1>> :
        x \in {x \in DOMAIN p.transitions :
                  /\ Contains(p.decision_points, x[1])
                  /\ Contains(p.actions[x[1]], x[2])}}

\* self.mask.T @ (self.mask @ x)
MaskTMask(mask, x) ==
    Dense([s \in DOMAIN x |->
        SumOver([e \in mask |->
                    SumOver([f \in mask |-> x[f[2]]],
                            {f \in mask : f[1] = e[1]})],
                {e \in mask : e[2] = s})])

\* CounterfactualRegretMinimization.__post_init__
minimizer_post_init(class, p) ==
    [class |-> class,
     mask |-> minimizer_mask(p),
     counterfactual_regrets |-> [s \in BehavioralIndices(p) |-> Zero],
     behavioral_uniform_strategy |-> behavioral_uniform_strategy(p),
     behavioral_strategy |-> behavioral_uniform_strategy(p),
     strategies |-> <<>>]

\* _floored_counterfactual_regrets of either class.
floored_counterfactual_regrets(m) ==
    IF m.class = PLUS THEN m.counterfactual_regrets
    ELSE [s \in DOMAIN m.counterfactual_regrets |->
             Clip0(m.counterfactual_regrets[s])]

\* A slip: the floored regrets are not divided by their sum.
next_behavioral_strategy_unnormalized(m) ==
    LET numerator == floored_counterfactual_regrets(m)
        denominator == MaskTMask(m.mask, numerator)
    IN [s \in DOMAIN numerator |->
           IF denominator[s] = Zero THEN m.behavioral_uniform_strategy[s]
           ELSE numerator[s]]

\* next_strategy, lines 54-62: the behavioral strategy assigned.
next_behavioral_strategy(m) ==
    LET numerator == floored_counterfactual_regrets(m)
        denominator == MaskTMask(m.mask, numerator)
        normalized_denominator ==
            [s \in DOMAIN denominator |->
                IF denominator[s] = Zero THEN One ELSE denominator[s]]
    IN [s \in DOMAIN numerator |->
           IF denominator[s] = Zero THEN m.behavioral_uniform_strategy[s]
           ELSE Div(numerator[s], normalized_denominator[s])]

\* next_strategy: the minimizer after the call and the strategy returned.
next_strategy(p, m) ==
    LET behavioral == next_behavioral_strategy(m)
        strategy == behavioral_to_sequence_form(p, behavioral)
    IN [minimizer |-> [m EXCEPT !.behavioral_strategy = behavioral,
                                !.strategies = Append(@, strategy)],
        value |-> strategy]

\* CounterfactualRegretMinimization.observe_utility: the regrets after it.
accumulated_regrets(p, m, utility) ==
    LET cu == counterfactual_utilities(p, m.behavioral_strategy, utility)
        weighted ==
            MaskTMask(m.mask,
                      [s \in DOMAIN cu |-> Mul(m.behavioral_strategy[s], cu[s])])
    IN [s \in DOMAIN cu |->
           Add(m.counterfactual_regrets[s], Sub(cu[s], weighted[s]))]

\* A slip: the subclass does not floor what it accumulated.
observe_utility_unfloored(p, m, utility) ==
    [m EXCEPT !.counterfactual_regrets = accumulated_regrets(p, m, utility)]

\* observe_utility of either class: the minimizer after the call.
observe_utility(p, m, utility) ==
    LET regrets == accumulated_regrets(p, m, utility)
    IN [m EXCEPT !.counterfactual_regrets =
           IF m.class = PLUS
           THEN [s \in DOMAIN regrets |-> Clip0(regrets[s])]
           ELSE regrets]

(***************************************************************************)
(* The sequence-form regret minimizers as a state machine.                 *)
(***************************************************************************)
\* observe_utility is called at most MaxObservations times.
MaxObservations == 2
\* The entries of a utility vector.
UtilityValues == {-1, 0, 1}
\* The numbers of actions of a lone decision point.
ActionCounts == {1, 2, 3}

ActionNames == <<"a", "b", "c", "d", "e">>
EndNames == <<"e1", "e2", "e3", "e4", "e5">>

\* One decision point j1 with k actions, each of which ends the process.
SingleDecision(k) ==
    LET A == SubSeq(ActionNames, 1, k)
        End(i) == EndNames[i]
    IN [nodes |-> <<"j1">> \o [i \in 1..k |-> End(i)],
        node_types |->
            [n \in {"j1"} \cup {End(i) : i \in 1..k} |->
                IF n = "j1" THEN DECISION_POINT
                ELSE END_OF_THE_DECISION_PROCESS],
        decision_points |-> <<"j1">>,
        actions |-> ("j1" :> A),
        signals |-> <<>>,
        transitions |->
            [x \in {<<"j1", A[i]>> : i \in 1..k} |->
                End(CHOOSE i \in 1..k : A[i] = x[2])],
        parent_sequences |-> ("j1" :> <<>>),
        sequences |-> <<<<>>>> \o [i \in 1..k |-> <<"j1", A[i]>>]]

\* The decision point j1 offers a and b; b ends the process, a leads to an
\* observation point with the signals s and t, after which the decision
\* points j2 and j3 offer a and b, which end the process.
TwoStage ==
    [nodes |-> <<"j1", "o1", "e1", "j2", "j3", "e2", "e3", "e4", "e5">>,
     node_types |->
         [n \in {"j1", "o1", "e1", "j2", "j3", "e2", "e3", "e4", "e5"} |->
             IF n \in {"j1", "j2", "j3"} THEN DECISION_POINT
             ELSE IF n = "o1" THEN OBSERVATION_POINT
             ELSE END_OF_THE_DECISION_PROCESS],
     decision_points |-> <<"j1", "j2", "j3">>,
     actions |-> [j \in {"j1", "j2", "j3"} |-> <<"a", "b">>],
     signals |-> ("o1" :> <<"s", "t">>),
     transitions |->
         (<<"j1", "a">> :> "o1" @@ <<"j1", "b">> :> "e1"
            @@ <<"o1", "s">> :> "j2" @@ <<"o1", "t">> :> "j3"
            @@ <<"j2", "a">> :> "e2" @@ <<"j2", "b">> :> "e3"
            @@ <<"j3", "a">> :> "e4" @@ <<"j3", "b">> :> "e5"),
     parent_sequences |->
         ("j1" :> <<>> @@ "o1" :> <<"j1", "a">> @@ "j2" :> <<"j1", "a">>
            @@ "j3" :> <<"j1", "a">>),
     sequences |->
         <<<<>>, <<"j1", "a">>, <<"j1", "b">>, <<"j2", "a">>, <<"j2", "b">>,
           <<"j3", "a">>, <<"j3", "b">>>>]

Processes == {SingleDecision(k) : k \in ActionCounts} \cup {TwoStage}

\* The utility vectors offered to observe_utility: over the sequences of p,
\* zero except at one sequence.
Utilities(p) ==
    {[s \in Indices(p.sequences) |-> IF s = at THEN Rat(u, 1) ELSE Zero] :
        at \in 1..(Len(p.sequences) - 1), u \in UtilityValues}

MinimizerInit ==
    /\ process \in Processes
    /\ minimizer = <<>>
    /\ observe_calls = 0
    /\ tree_args = [vertices |-> <<>>, root |-> 0, leaves |-> <<>>,
                    parents |-> <<>>]
    /\ tree_raised = "pending"
    /\ finite_tree = {}
    /\ GameIdle
    /\ SolverIdle
    /\ ResponseIdle

\* The call CounterfactualRegretMinimization(tfsdp) or
\* CounterfactualRegretMinimizationPlus(tfsdp).
NewRegretMinimizer ==
    /\ process # <<>>
    /\ minimizer = <<>>
    /\ \E class \in {VANILLA, PLUS} :
        minimizer' = minimizer_post_init(class, process)
    /\ UNCHANGED <<process, observe_calls>>
    /\ UNCHANGED <<tree_vars, game_vars, solver_vars, response_vars>>

\* The call minimizer.next_strategy(), before the first observation or after
\* one.
NextStrategy ==
    /\ minimizer # <<>>
    /\ Len(minimizer.strategies) <= observe_calls
    /\ minimizer' = next_strategy(process, minimizer).minimizer
    /\ UNCHANGED <<process, observe_calls>>
    /\ UNCHANGED <<tree_vars, game_vars, solver_vars, response_vars>>

\* The call minimizer.observe_utility(utility).
ObserveUtility ==
    /\ minimizer # <<>>
    /\ observe_calls < MaxObservations
    /\ \E utility \in Utilities(process) :
        minimizer' = observe_utility(process, minimizer, utility)
    /\ observe_calls' = observe_calls + 1
    /\ UNCHANGED process
    /\ UNCHANGED <<tree_vars, game_vars, solver_vars, response_vars>>

MinimizerNext ==
    \/ NewRegretMinimizer
    \/ NextStrategy
    \/ ObserveUtility

SpecMinimizer == MinimizerInit /\ [][MinimizerNext]_vars

\* Both solvers: the node-based one on a game, or a sequence-form one on a
\* decision process.
SolversInit ==
    \/ CFRInit
    \/ MinimizerInit

SolversNext ==
    \/ CFRNext
    \/ MinimizerNext

SpecSolvers == SolversInit /\ [][SolversNext]_vars

(***************************************************************************)
(* Claims about regret matching.                                           *)
(***************************************************************************)
\* The floored average regret the node-based solver holds at (h, a).
FlooredRegretAt(h, a) ==
    Clip0(buffers.average_counterfactual_regrets[
              IndexOf(indices.actions, <<h, a>>)])

\* Regret matching at every information set of the node-based solver.
NodeBasedRegretMatched ==
    \A h \in NonNatureInformationSets(game_args) :
        LET menu == MenuAt(game_args, h)
            total == SumOver([a \in menu |-> FlooredRegretAt(h, a)], menu)
        IN \A a \in menu :
            CurrentStrategy(h, a) =
                IF total = Zero THEN UniformAt(game_args, h)
                ELSE Div(FlooredRegretAt(h, a), total)

\* The position in sequences[1:] of the sequence (j, a).
SequenceAt(p, j, a) == IndexOf(p.sequences, <<j, a>>) - 1

\* The sum of the floored regrets of the actions of the decision point j.
FlooredRegretSum(p, m, j) ==
    SumOver([a \in Members(p.actions[j]) |->
                Clip0(m.counterfactual_regrets[SequenceAt(p, j, a)])],
            Members(p.actions[j]))

\* Regret matching at every decision point of the minimizer m.
SequenceFormRegretMatched(p, m) ==
    \A j \in Members(p.decision_points) :
        \A a \in Members(p.actions[j]) :
            m.behavioral_strategy[SequenceAt(p, j, a)] =
                IF FlooredRegretSum(p, m, j) = Zero
                THEN Rat(1, Len(p.actions[j]))
                ELSE Div(Clip0(m.counterfactual_regrets[SequenceAt(p, j, a)]),
                         FlooredRegretSum(p, m, j))

\* A step of next_strategy(): it alone appends to strategies.
NextStrategyStep ==
    /\ minimizer # <<>>
    /\ minimizer' # <<>>
    /\ Len(minimizer'.strategies) = Len(minimizer.strategies) + 1

\* C11: the strategy that iterate() of the node-based solver and
\* next_strategy() of either sequence-form minimizer derive is, at every
\* information set (decision point), the uniform value 1/|actions| at each
\* action if the floored regrets of its actions sum to zero, and else the
\* floored regret of the action divided by that sum.
C11_RegretMatchingFallsBackToUniform ==
    /\ []((Ready /\ buffers.iteration_count > 0) => NodeBasedRegretMatched)
    /\ [][NextStrategyStep =>
              SequenceFormRegretMatched(process', minimizer')]_vars

\* A minimizer whose strategy, derived after an observation, is uniform at
\* one decision point (zero sum) and not uniform at another (positive sum).
C11_Witness ==
    /\ minimizer # <<>>
    /\ observe_calls > 0
    /\ SequenceFormRegretMatched(process, minimizer)
    /\ \E j \in Members(process.decision_points) :
        /\ Len(process.actions[j]) > 1
        /\ FlooredRegretSum(process, minimizer, j) = Zero
    /\ \E j \in Members(process.decision_points) :
        /\ FlooredRegretSum(process, minimizer, j) # Zero
        /\ \E a \in Members(process.actions[j]) :
            minimizer.behavioral_strategy[SequenceAt(process, j, a)]
                \notin {Zero, One, Rat(1, Len(process.actions[j]))}

\* A step of observe_utility(): it alone counts observations.
ObserveUtilityStep == observe_calls' = observe_calls + 1

\* What a step added to the regrets of the actions of the decision point j,
\* weighted by the strategy the utility was observed under.
WeightedIncrement(p, m, after, j) ==
    SumOver([a \in Members(p.actions[j]) |->
                Mul(m.behavioral_strategy[SequenceAt(p, j, a)],
                    Sub(after.counterfactual_regrets[SequenceAt(p, j, a)],
                        m.counterfactual_regrets[SequenceAt(p, j, a)]))],
            Members(p.actions[j]))

\* C18: every stored regret of CounterfactualRegretMinimizationPlus is >= 0,
\* initially and after every observe_utility call.  The vanilla class stores
\* the cumulative regret as accumulated: what an observation adds at a
\* decision point averages to zero under the strategy played, which no
\* flooring keeps; and next_strategy() of either class leaves the stored
\* regrets as they are.
C18_PlusFloorsOnAccumulation ==
    /\ [](minimizer # <<>> /\ minimizer.class = PLUS =>
             \A s \in DOMAIN minimizer.counterfactual_regrets :
                 ~Less(minimizer.counterfactual_regrets[s], Zero))
    /\ [][ObserveUtilityStep /\ minimizer.class = VANILLA =>
              \A j \in Members(process.decision_points) :
                  WeightedIncrement(process, minimizer, minimizer', j) = Zero]_vars
    /\ [][NextStrategyStep =>
              minimizer'.counterfactual_regrets
                  = minimizer.counterfactual_regrets]_vars

\* A vanilla minimizer that stores a negative regret, and whose strategy was
\* derived from it since.
C18_Witness ==
    /\ minimizer # <<>>
    /\ minimizer.class = VANILLA
    /\ observe_calls > 0
    /\ Len(minimizer.strategies) > observe_calls
    /\ \E s \in DOMAIN minimizer.counterfactual_regrets :
        /\ Less(minimizer.counterfactual_regrets[s], Zero)
        /\ minimizer.behavioral_strategy[s] = Zero

(***************************************************************************)
(* algorithms/best_response.py.  A strategy profile, a callable of the     *)
(* source, is a function on the pairs <<node, action>>.  The result of a   *)
(* method is the record of the exception raised ("ok" for none), the value *)
(* returned and the entries the call left in the caches of the three       *)
(* cached methods (functools2.cached_method: functools.cache keyed by the  *)
(* instance and the arguments; a call that raises is not cached).          *)
(***************************************************************************)
RECURSIVE MergeAll(_)
\* dict.update over a sequence of mappings.
MergeAll(ms) == IF ms = <<>> THEN <<>> ELSE Head(ms) @@ MergeAll(Tail(ms))

\* BestResponse.__post_init__: the field nodes.
best_response_nodes(g) ==
    LET dn == decision_nodes(g)
    IN [h \in {g.information_partition[dn[i]] : i \in 1..Len(dn)} |->
           SelectSeq(dn, LAMBDA n : g.information_partition[n] = h)]

\* BestResponse.__post_init__: the field successors; a later node of the same
\* predecessor and action replaces an earlier one.
best_response_successors(g) ==
    LET nr == non_initial_nodes(g)
        Key(n) == <<predecessors(g)[n], g.action_partition[n]>>
    IN [x \in {Key(nr[i]) : i \in 1..Len(nr)} |->
           nr[CHOOSE i \in 1..Len(nr) :
                  /\ Key(nr[i]) = x
                  /\ \A k \in 1..Len(nr) : Key(nr[k]) = x => k <= i]]

RECURSIVE best_response_dfs(_, _, _, _, _)
\* BestResponse._dfs: the entries it writes to
\* counterfactual_reach_probabilities.
best_response_dfs(g, sp, player, node, probability) ==
    IF Contains(terminal_nodes(g), node) THEN (node :> probability)
    ELSE LET succ == successors(g)[node]
             own == g.player_partition[g.information_partition[node]] = player
             below ==
                 Dense([i \in 1..Len(succ) |->
                     best_response_dfs(
                         g, sp, player, succ[i],
                         Mul(probability,
                             IF own THEN One
                             ELSE sp[<<node, g.action_partition[succ[i]]>>]))])
         IN MergeAll(below) @@ (node :> probability)

\* BestResponse.__post_init__: the fields of the instance; the caches of its
\* methods hold nothing yet.
best_response_post_init(g, sp, player) ==
    [strategy_profile |-> sp,
     player |-> player,
     nodes |-> best_response_nodes(g),
     successors |-> best_response_successors(g),
     counterfactual_reach_probabilities |->
         best_response_dfs(g, sp, player, initial_node(g), One),
     best_action |-> <<>>,
     action_probability |-> <<>>,
     expected_payoff |-> <<>>]

\* The result of a call that raised.
Raised(exception) ==
    [raised |-> exception, value |-> <<>>, best_action |-> <<>>,
     action_probability |-> <<>>, expected_payoff |-> <<>>]

\* The calls of a sequence of calls that are made: up to the first that raises.
Executed(calls) ==
    IF \E i \in 1..Len(calls) : calls[i].raised # "ok"
    THEN SubSeq(calls, 1, CHOOSE i \in 1..Len(calls) :
                    /\ calls[i].raised # "ok"
                    /\ \A k \in 1..(i - 1) : calls[k].raised = "ok")
    ELSE calls

\* The exception that ends a sequence of calls, or "ok".
RaisedBy(calls) ==
    IF Executed(calls) = <<>> THEN "ok"
    ELSE Executed(calls)[Len(Executed(calls))].raised

\* The result of a sequence of calls followed by a return or a raise.
After(calls, exception, value) ==
    LET done == Dense(Executed(calls))
        raised == IF done = <<>> THEN "ok" ELSE done[Len(done)].raised
    IN [raised |-> IF raised # "ok" THEN raised ELSE exception,
        value |-> IF raised # "ok" \/ exception # "ok" THEN <<>> ELSE value,
        best_action |-> MergeAll([i \in 1..Len(done) |-> done[i].best_action]),
        action_probability |->
            MergeAll([i \in 1..Len(done) |-> done[i].action_probability]),
        expected_payoff |->
            MergeAll([i \in 1..Len(done) |-> done[i].expected_payoff])]

\* A slip: the owner of the information set is not compared.
verify_information_set_any_owner(g, player, information_set) ==
    IF information_set \notin DOMAIN g.player_partition THEN "KeyError"
    ELSE "ok"

\* BestResponse._verify_information_set: the exception raised, or "ok".
verify_information_set(g, player, information_set) ==
    IF information_set \notin DOMAIN g.player_partition THEN "KeyError"
    ELSE IF g.player_partition[information_set] # player
        THEN "actor is not the best responder"
    ELSE "ok"

\* bool as a float.
Float(b) == IF b THEN One ELSE Zero

\* A slip: the position of the first minimum.
ArgMin(xs) ==
    CHOOSE i \in 1..Len(xs) :
        /\ \A k \in 1..Len(xs) : ~Less(xs[k], xs[i])
        /\ \A k \in 1..(i - 1) : Less(xs[i], xs[k])

\* expected_payoffs.index(max(expected_payoffs)), as a position.
ArgMax(xs) ==
    CHOOSE i \in 1..Len(xs) :
        /\ \A k \in 1..Len(xs) : ~Less(xs[i], xs[k])
        /\ \A k \in 1..(i - 1) : Less(xs[k], xs[i])

RECURSIVE get_best_action(_, _, _, _)
RECURSIVE get_action_probability(_, _, _, _, _)
RECURSIVE get_expected_payoff(_, _, _, _)

\* BestResponse.get_best_action on no cached result.  running is the set of
\* information sets whose get_best_action is on the call stack: the call
\* reached again from itself recurses until RecursionError.
get_best_action(g, br, running, information_set) ==
    LET player == br.player
        verdict == verify_information_set(g, player, information_set)
    IN IF verdict # "ok" THEN Raised(verdict)
       ELSE IF information_set \in running THEN Raised("RecursionError")
       ELSE IF information_set \notin DOMAIN available_actions(g)
           THEN Raised("KeyError")
       ELSE
        LET actions == available_actions(g)[information_set]
            ns == br.nodes[information_set]
            count == Len(actions)
            NodeOf(k) == ns[((k - 1) \div count) + 1]
            ActionOf(k) == actions[((k - 1) % count) + 1]
            calls ==
                Dense([k \in 1..(Len(ns) * count) |->
                    IF NodeOf(k) \notin DOMAIN br.counterfactual_reach_probabilities
                    THEN Raised("KeyError")
                    ELSE IF <<NodeOf(k), ActionOf(k)>> \notin DOMAIN br.successors
                    THEN Raised("KeyError")
                    ELSE get_expected_payoff(
                             g, br, running \cup {information_set},
                             br.successors[<<NodeOf(k), ActionOf(k)>>])])
            expected_payoffs ==
                [i \in 1..count |->
                    SumSeq([n \in 1..Len(ns) |->
                        Mul(br.counterfactual_reach_probabilities[ns[n]],
                            calls[(n - 1) * count + i].value)])]
            made == After(calls, "ok", <<>>)
        IN IF made.raised # "ok" THEN made
           ELSE [made EXCEPT
                    !.value = actions[ArgMax(expected_payoffs)],
                    !.best_action =
                        (information_set :> actions[ArgMax(expected_payoffs)])
                            @@ @]

\* BestResponse.get_action_probability on no cached result.
get_action_probability(g, br, running, information_set, action) ==
    LET verdict == verify_information_set(g, br.player, information_set)
    IN IF verdict # "ok" THEN Raised(verdict)
       ELSE
        LET best == get_best_action(g, br, running, information_set)
        IN IF best.raised # "ok" THEN best
           ELSE [best EXCEPT
                    !.value = (action = best.value),
                    !.action_probability =
                        (<<information_set, action>> :> (action = best.value))
                            @@ @]

\* A slip: the sum of the probabilities is not asserted.
get_expected_payoff_unasserted(g, br, running, node) ==
    IF Contains(terminal_nodes(g), node)
    THEN IF br.player \notin DOMAIN g.payoffs[node] THEN Raised("KeyError")
         ELSE [Raised("ok") EXCEPT
                  !.value = Rat(g.payoffs[node][br.player], 1),
                  !.expected_payoff =
                      (node :> Rat(g.payoffs[node][br.player], 1))]
    ELSE
        LET succ == successors(g)[node]
            below == Dense([i \in 1..Len(succ) |->
                         get_expected_payoff(g, br, running, succ[i])])
            information_set == g.information_partition[node]
            actions == MapGet(g.action_partition, succ)
            own == g.player_partition[information_set] = br.player
            asked ==
                IF own /\ RaisedBy(below) = "ok"
                THEN Dense([i \in 1..Len(succ) |->
                         get_action_probability(g, br, running,
                                                information_set, actions[i])])
                ELSE <<>>
            calls == Dense(below \o asked)
            probabilities ==
                [i \in 1..Len(succ) |->
                    IF own THEN Float(asked[i].value)
                    ELSE br.strategy_profile[<<node, actions[i]>>]]
        IN IF RaisedBy(calls) # "ok" THEN After(calls, "ok", <<>>)
           ELSE
            LET expected_payoff ==
                    SumSeq([i \in 1..Len(succ) |->
                               Mul(below[i].value, probabilities[i])])
                made == After(calls, "ok", expected_payoff)
            IN [made EXCEPT
                   !.expected_payoff = (node :> expected_payoff) @@ @]

\* BestResponse.get_expected_payoff on no cached result.
get_expected_payoff(g, br, running, node) ==
    IF Contains(terminal_nodes(g), node)
    THEN IF br.player \notin DOMAIN g.payoffs[node] THEN Raised("KeyError")
         ELSE [Raised("ok") EXCEPT
                  !.value = Rat(g.payoffs[node][br.player], 1),
                  !.expected_payoff =
                      (node :> Rat(g.payoffs[node][br.player], 1))]
    ELSE
        LET succ == successors(g)[node]
            below == Dense([i \in 1..Len(succ) |->
                         get_expected_payoff(g, br, running, succ[i])])
            information_set == g.information_partition[node]
            actions == MapGet(g.action_partition, succ)
            own == g.player_partition[information_set] = br.player
            asked ==
                IF own /\ RaisedBy(below) = "ok"
                THEN Dense([i \in 1..Len(succ) |->
                         get_action_probability(g, br, running,
                                                information_set, actions[i])])
                ELSE <<>>
            calls == Dense(below \o asked)
            probabilities ==
                [i \in 1..Len(succ) |->
                    IF own THEN Float(asked[i].value)
                    ELSE br.strategy_profile[<<node, actions[i]>>]]
        IN IF RaisedBy(calls) # "ok" THEN After(calls, "ok", <<>>)
           ELSE IF SumSeq(probabilities) # One
               THEN After(calls, "AssertionError", <<>>)
           ELSE
            LET expected_payoff ==
                    SumSeq([i \in 1..Len(succ) |->
                               Mul(below[i].value, probabilities[i])])
                made == After(calls, "ok", expected_payoff)
            IN [made EXCEPT
                   !.expected_payoff = (node :> expected_payoff) @@ @]

(***************************************************************************)
(* algorithms/expected_payoffs.py                                          *)
(***************************************************************************)
RECURSIVE expected_payoffs_dfs(_, _, _)
\* A slip: the payoffs of the successors are added up without their
\* probabilities.
expected_payoffs_dfs_unweighted(g, sp, node) ==
    IF Contains(terminal_nodes(g), node)
    THEN (node :> [i \in DOMAIN g.payoffs[node] |->
                      Rat(g.payoffs[node][i], 1)])
    ELSE LET succ == successors(g)[node]
             below == MergeAll([k \in 1..Len(succ) |->
                                   expected_payoffs_dfs(g, sp, succ[k])])
             players == UNION {DOMAIN below[succ[k]] : k \in 1..Len(succ)}
             entry ==
                 [i \in players |->
                     SumSeq([k \in 1..Len(succ) |->
                         IF i \in DOMAIN below[succ[k]]
                         THEN below[succ[k]][i]
                         ELSE Zero])]
         IN IF players = {} THEN below ELSE (node :> entry) @@ below

\* ExpectedPayoffs._dfs: the entries it leaves in expected_payoffs, a
\* defaultdict of defaultdicts; a decision node gets an entry when some
\* successor has one for some player.
expected_payoffs_dfs(g, sp, node) ==
    IF Contains(terminal_nodes(g), node)
    THEN (node :> [i \in DOMAIN g.payoffs[node] |->
                      Rat(g.payoffs[node][i], 1)])
    ELSE LET succ == successors(g)[node]
             below == MergeAll([k \in 1..Len(succ) |->
                                   expected_payoffs_dfs(g, sp, succ[k])])
             players == UNION {DOMAIN below[succ[k]] : k \in 1..Len(succ)}
             entry ==
                 [i \in players |->
                     SumSeq([k \in 1..Len(succ) |->
                         IF i \in DOMAIN below[succ[k]]
                         THEN Mul(sp[<<node, g.action_partition[succ[k]]>>],
                                  below[succ[k]][i])
                         ELSE Zero])]
         IN IF players = {} THEN below ELSE (node :> entry) @@ below

\* ExpectedPayoffs.__call__: the value returned, and expected_payoffs after
\* the read, which creates the entries it does not find.
expected_payoffs_call(table, node, player) ==
    IF node \in DOMAIN table /\ player \in DOMAIN table[node]
    THEN [value |-> table[node][player], expected_payoffs |-> table]
    ELSE [value |-> Zero,
          expected_payoffs |->
              (node :> ((player :> Zero)
                            @@ (IF node \in DOMAIN table THEN table[node]
                                ELSE <<>>)))
                  @@ table]

RECURSIVE DerivedCalls(_, _, _)
\* The calls of get_action_probability that ExpectedPayoffs._dfs makes, in
\* their order, when its strategy profile answers for the nodes of the
\* responder with br.get_action_probability.
DerivedCalls(g, br, node) ==
    IF Contains(terminal_nodes(g), node) THEN <<>>
    ELSE LET succ == successors(g)[node]
             RECURSIVE Below(_)
             Below(k) == IF k > Len(succ) THEN <<>>
                         ELSE DerivedCalls(g, br, succ[k]) \o Below(k + 1)
             information_set == g.information_partition[node]
         IN Below(1)
            \o (IF g.player_partition[information_set] = br.player
                THEN [k \in 1..Len(succ) |->
                         get_action_probability(
                             g, br, {}, information_set,
                             g.action_partition[succ[k]])]
                ELSE <<>>)

\* The strategy profile that plays the best action of br at the nodes of the
\* responder and br.strategy_profile elsewhere.
DerivedProfile(g, br) ==
    [x \in DOMAIN br.strategy_profile |->
        LET information_set == g.information_partition[x[1]]
        IN IF g.player_partition[information_set] = br.player
           THEN Float(get_action_probability(g, br, {}, information_set,
                                             x[2]).value)
           ELSE br.strategy_profile[x]]

(***************************************************************************)
(* BestResponse and ExpectedPayoffs as state machines.                     *)
(***************************************************************************)
\* The distributions over two actions that a strategy profile is drawn from.
ResponseDistributions == {<<Zero, One>>, <<Rat(1, 2), Rat(1, 2)>>}

\* The payoffs of p1 that the games are drawn from.
ResponsePayoffs == {0, 1}

\* The strategy profile that plays choice[h] at every node of the
\* information set h, and the chance probabilities at the nodes of nature.
\* The responder, whose part of the profile BestResponse never reads, plays
\* uniformly.
ProfileOf(g, choice) ==
    LET nr == non_initial_nodes(g)
    IN [x \in {<<predecessors(g)[nr[i]], g.action_partition[nr[i]]>> :
                  i \in 1..Len(nr)} |->
           LET h == g.information_partition[x[1]]
           IN IF g.player_partition[h] = g.nature
              THEN g.nature_probabilities[h][x[2]]
              ELSE choice[h][IndexOf(available_actions(g)[h], x[2]) + 1]]

\* The information sets with a node that nature does not own.
PlayedInformationSets(g) ==
    {h \in DOMAIN available_actions(g) : g.player_partition[h] # g.nature}

\* The games offered: the two-player games, with the actions declared in
\* either order, and the games with nature; the payoff of p1 is drawn at the
\* first and the last leaf and is 0 at the others.
DrawResponseGame ==
    \/ \E split \in BOOLEAN, swap \in BOOLEAN,
          first \in ResponsePayoffs, last \in ResponsePayoffs :
        game_args = [TwoPlayerGame(split, FALSE,
                                   4 :> first @@ 5 :> 0 @@ 6 :> 0 @@ 7 :> last)
                        EXCEPT !.actions = IF swap THEN <<"b", "a">> ELSE @]
    \/ \E np \in [{"a", "b"} -> Probabilities],
          first \in ResponsePayoffs, last \in ResponsePayoffs :
        game_args = NatureGame(np, 3 :> first @@ 4 :> 0 @@ 5 :> last)

ResponseInit ==
    /\ DrawResponseGame
    /\ FiniteExtensiveFormGame_post_init(game_args) = "ok"
    /\ tree_args = game_args.game_tree
    /\ tree_raised = "ok"
    /\ finite_tree = {tree_args}
    /\ game_raised = "ok"
    /\ game = {game_args}
    /\ SolverIdle
    /\ MinimizerIdle
    /\ responder \in Members(RationalPlayers(game_args))
    /\ \E choice \in [PlayedInformationSets(game_args) ->
                         ResponseDistributions] :
        /\ \A h \in DOMAIN choice :
               game_args.player_partition[h] = responder =>
                   choice[h] = <<Rat(1, 2), Rat(1, 2)>>
        /\ profile = ProfileOf(game_args, choice)
    /\ best_response = <<>>
    /\ expected = <<>>
    /\ answered = NoCall

\* The call BestResponse(game, strategy_profile, player).
NewBestResponse ==
    /\ best_response = <<>>
    /\ \E g \in game :
        best_response' = best_response_post_init(g, profile, responder)
    /\ answered' = [method |-> "BestResponse", args |-> <<>>,
                    raised |-> "ok", value |-> <<>>]
    /\ UNCHANGED <<profile, responder, expected>>
    /\ UNCHANGED <<tree_vars, game_vars, solver_vars, minimizer_vars>>

\* br after a call that left the entries of got in the caches.
Cached(br, got) ==
    [br EXCEPT !.best_action = got.best_action @@ @,
               !.action_probability = got.action_probability @@ @,
               !.expected_payoff = got.expected_payoff @@ @]

\* The call best_response.get_best_action(h) for a declared information set:
\* the cached result if there is one, else the method.
GetBestAction ==
    /\ best_response # <<>>
    /\ \E h \in Members(game_args.information_sets) :
        \E got \in {IF h \in DOMAIN best_response.best_action
                   THEN [Raised("ok") EXCEPT
                            !.value = best_response.best_action[h]]
                   ELSE get_best_action(game_args, best_response, {}, h)} :
           /\ best_response' = Cached(best_response, got)
           /\ answered' = [method |-> "get_best_action", args |-> <<h>>,
                           raised |-> got.raised, value |-> got.value]
    /\ UNCHANGED <<profile, responder, expected>>
    /\ UNCHANGED <<tree_vars, game_vars, solver_vars, minimizer_vars>>

\* The call best_response.get_action_probability(h, a).
GetActionProbability ==
    /\ best_response # <<>>
    /\ \E h \in Members(game_args.information_sets),
          a \in Members(game_args.actions) :
        \E got \in {IF <<h, a>> \in DOMAIN best_response.action_probability
                   THEN [Raised("ok") EXCEPT
                            !.value = best_response.action_probability[<<h, a>>]]
                   ELSE get_action_probability(game_args, best_response, {},
                                               h, a)} :
           /\ best_response' = Cached(best_response, got)
           /\ answered' = [method |-> "get_action_probability",
                           args |-> <<h, a>>,
                           raised |-> got.raised, value |-> got.value]
    /\ UNCHANGED <<profile, responder, expected>>
    /\ UNCHANGED <<tree_vars, game_vars, solver_vars, minimizer_vars>>

\* The call best_response.get_expected_payoff(node) for a decision node or
\* the first terminal node.
GetExpectedPayoff ==
    /\ best_response # <<>>
    /\ \E node \in Members(decision_nodes(game_args))
                      \cup {terminal_nodes(game_args)[1]} :
        \E got \in {IF node \in DOMAIN best_response.expected_payoff
                   THEN [Raised("ok") EXCEPT
                            !.value = best_response.expected_payoff[node]]
                   ELSE get_expected_payoff(game_args, best_response, {}, node)} :
           /\ best_response' = Cached(best_response, got)
           /\ answered' = [method |-> "get_expected_payoff",
                           args |-> <<node>>,
                           raised |-> got.raised, value |-> got.value]
    /\ UNCHANGED <<profile, responder, expected>>
    /\ UNCHANGED <<tree_vars, game_vars, solver_vars, minimizer_vars>>

ResponseNext ==
    \/ NewBestResponse
    \/ GetBestAction
    \/ GetActionProbability
    \/ GetExpectedPayoff

SpecResponse == ResponseInit /\ [][ResponseNext]_vars

(***************************************************************************)
(* Claims about BestResponse.                                              *)
(***************************************************************************)
\* A step that is a call of get_best_action or get_action_probability for a
\* declared information set that the responder does not own.
WrongOwnerQueryStep ==
    /\ answered'.method \in {"get_best_action", "get_action_probability"}
    /\ answered'.args[1] \in DOMAIN game_args.player_partition
    /\ game_args.player_partition[answered'.args[1]] # responder

\* C12: get_best_action and get_action_probability, called for an
\* information set whose owner is not the responder, raise the ValueError
\* 'actor is not the best responder' and leave every field of the
\* BestResponse and every cached result as they were, so that the queries
\* made before and after answer as if the call had not been made.
C12_WrongOwnerQueryRaisesAndKeepsState ==
    [][WrongOwnerQueryStep =>
          /\ answered'.raised = "actor is not the best responder"
          /\ answered'.value = <<>>
          /\ best_response' = best_response
          /\ UNCHANGED <<profile, responder, expected>>
          /\ UNCHANGED <<tree_vars, game_vars>>]_vars

\* A query for an information set of the other player, refused after the
\* caches were filled by valid queries.
C12_Witness ==
    /\ best_response # <<>>
    /\ answered.method \in {"get_best_action", "get_action_probability"}
    /\ answered.raised = "actor is not the best responder"
    /\ DOMAIN best_response.best_action # {}
    /\ DOMAIN best_response.action_probability # {}
    /\ DOMAIN best_response.expected_payoff # {}

\* The sum over the nodes n of the information set h of counterfactualReach(n)
\* times expectedPayoff(successor(n, a)).
WeightedPayoff(h, a) ==
    SumSeq([k \in 1..Len(best_response.nodes[h]) |->
        LET n == best_response.nodes[h][k]
        IN Mul(best_response.counterfactual_reach_probabilities[n],
               get_expected_payoff(game_args, best_response, {},
                                   best_response.successors[<<n, a>>]).value)])

\* The actions of h that attain the maximum of WeightedPayoff(h, .).
MaximalActions(h) ==
    {a \in Members(available_actions(game_args)[h]) :
        \A b \in Members(available_actions(game_args)[h]) :
            ~Less(WeightedPayoff(h, a), WeightedPayoff(h, b))}

\* The first member of the FrozenOrderedSet order that lies in S.
FirstOf(order, S) ==
    order[CHOOSE i \in 1..Len(order) :
              /\ order[i] \in S
              /\ \A k \in 1..(i - 1) : order[k] \notin S]

\* A call get_best_action(h) for an information set of the responder.
OwnBestActionQuery ==
    /\ answered.method = "get_best_action"
    /\ answered.args[1] \in DOMAIN game_args.player_partition
    /\ game_args.player_partition[answered.args[1]] = responder

\* C13: get_best_action(h), for an information set h of the responder,
\* returns an action that maximizes the sum over the nodes n of h of
\* counterfactualReach(n) * expectedPayoff(successor(n, a)), and among the
\* maximal actions the first in the order of the game's actions.
C13_BestActionIsFirstMaximalDeclared ==
    OwnBestActionQuery =>
        /\ answered.raised = "ok"
        /\ answered.value \in MaximalActions(answered.args[1])
        /\ answered.value =
               FirstOf(game_args.actions, MaximalActions(answered.args[1]))

\* What the code does: the maximal action that comes first in
\* available_actions[h], the order in which the actions label the children
\* of the nodes of h.
BestActionIsFirstMaximalAvailable ==
    OwnBestActionQuery /\ answered.raised = "ok" =>
        answered.value =
            FirstOf(available_actions(game_args)[answered.args[1]],
                    MaximalActions(answered.args[1]))

(***************************************************************************)
(* ExpectedPayoffs as a state machine, beside BestResponse.                *)
(***************************************************************************)
\* A game on BinaryTree in which p1 moves at the root and again at both
\* children, which share an information set: p1 does not recall its move.
ForgetfulGame ==
    [TwoPlayerGame(FALSE, FALSE, 4 :> 1 @@ 5 :> 2 @@ 6 :> 1 @@ 7 :> 0)
        EXCEPT !.player_partition = ("h1" :> "p1" @@ "h2" :> "p1")]

\* The games of ResponseInit and ForgetfulGame, each with a responder and a
\* strategy profile.
PayoffsInit ==
    /\ \/ DrawResponseGame
       \/ game_args = ForgetfulGame
    /\ FiniteExtensiveFormGame_post_init(game_args) = "ok"
    /\ tree_args = game_args.game_tree
    /\ tree_raised = "ok"
    /\ finite_tree = {tree_args}
    /\ game_raised = "ok"
    /\ game = {game_args}
    /\ SolverIdle
    /\ MinimizerIdle
    /\ responder \in Members(RationalPlayers(game_args))
    /\ \E choice \in [PlayedInformationSets(game_args) ->
                         ResponseDistributions] :
        /\ \A h \in DOMAIN choice :
               game_args.player_partition[h] = responder =>
                   choice[h] = <<Rat(1, 2), Rat(1, 2)>>
        /\ profile = ProfileOf(game_args, choice)
    /\ best_response = <<>>
    /\ expected = <<>>
    /\ answered = NoCall

\* The call ExpectedPayoffs(game, strategy_profile).
NewExpectedPayoffs ==
    /\ expected = <<>>
    /\ \E g \in game :
        expected' =
            [strategy_profile |-> profile,
             derived |-> FALSE,
             expected_payoffs |->
                 expected_payoffs_dfs(g, profile, initial_node(g))]
    /\ answered' = [method |-> "ExpectedPayoffs", args |-> <<>>,
                    raised |-> "ok", value |-> <<>>]
    /\ UNCHANGED <<profile, responder, best_response>>
    /\ UNCHANGED <<tree_vars, game_vars, solver_vars, minimizer_vars>>

\* The call ExpectedPayoffs(game, derived), where derived(node, action) is
\* best_response.get_action_probability(information set of node, action) at
\* the nodes of the responder and strategy_profile(node, action) elsewhere.
NewDerivedExpectedPayoffs ==
    /\ expected = <<>>
    /\ best_response # <<>>
    /\ \E g \in game :
        \E made \in {After(DerivedCalls(g, best_response, initial_node(g)),
                           "ok", <<>>)} :
           /\ best_response' = Cached(best_response, made)
           /\ answered' = [method |-> "ExpectedPayoffs", args |-> <<>>,
                           raised |-> made.raised, value |-> <<>>]
           /\ expected' =
                  IF made.raised # "ok" THEN expected
                  ELSE
                      [strategy_profile |-> DerivedProfile(g, best_response),
                       derived |-> TRUE,
                       expected_payoffs |->
                           expected_payoffs_dfs(
                               g, DerivedProfile(g, best_response),
                               initial_node(g))]
    /\ UNCHANGED <<profile, responder>>
    /\ UNCHANGED <<tree_vars, game_vars, solver_vars, minimizer_vars>>

\* The call expected_payoffs(node, player) for a node and a player of the
\* game, nature among them.
CallExpectedPayoffs ==
    /\ expected # <<>>
    /\ \E node \in Members(game_args.game_tree.vertices),
          player \in Members(game_args.players) :
        \E got \in {expected_payoffs_call(expected.expected_payoffs,
                                          node, player)} :
           /\ expected' = [expected EXCEPT
                              !.expected_payoffs = got.expected_payoffs]
           /\ answered' = [method |-> "ExpectedPayoffs.__call__",
                           args |-> <<node, player>>,
                           raised |-> "ok", value |-> got.value]
    /\ UNCHANGED <<profile, responder, best_response>>
    /\ UNCHANGED <<tree_vars, game_vars, solver_vars, minimizer_vars>>

PayoffsNext ==
    \/ NewBestResponse
    \/ NewExpectedPayoffs
    \/ NewDerivedExpectedPayoffs
    \/ CallExpectedPayoffs

SpecPayoffs == PayoffsInit /\ [][PayoffsNext]_vars

(***************************************************************************)
(* Claims about ExpectedPayoffs.                                           *)
(***************************************************************************)
RECURSIVE Descendants(_, _)
\* The nodes reached from node along the successors of the game.
Descendants(g, node) ==
    {node} \cup
        (IF node \in DOMAIN successors(g)
         THEN UNION {Descendants(g, successors(g)[node][k]) :
                        k \in 1..Len(successors(g)[node])}
         ELSE {})

RECURSIVE ExpectedValue(_, _, _, _)
\* The expected payoff of player at node under the strategy profile sp: the
\* declared payoff at a terminal node, else the sum over the children c of
\* sp(node, action(c)) times the value at c.
ExpectedValue(g, sp, node, player) ==
    IF Contains(terminal_nodes(g), node)
    THEN Rat(g.payoffs[node][player], 1)
    ELSE LET succ == successors(g)[node]
         IN SumSeq([k \in 1..Len(succ) |->
                Mul(sp[<<node, g.action_partition[succ[k]]>>],
                    ExpectedValue(g, sp, succ[k], player))])

\* A step that is a call expected_payoffs(node, player).
CallExpectedPayoffsStep ==
    /\ expected # <<>>
    /\ expected' # <<>>
    /\ answered'.method = "ExpectedPayoffs.__call__"
    /\ UNCHANGED <<profile, responder, best_response>>

\* C15: expected_payoffs(node, player) is, for a node reachable from the
\* root and a rational player, the declared payoff at a terminal node and
\* otherwise the sum over the children c of profile(node, action(c)) times
\* the value at c; it is 0 for a node and player that hold no value, as for
\* nature.
C15_ExpectedPayoffsFollowTheRecurrence ==
    [][CallExpectedPayoffsStep =>
          LET node == answered'.args[1]
              player == answered'.args[2]
              table == expected.expected_payoffs
          IN /\ (/\ node \in Descendants(game_args, initial_node(game_args))
                 /\ Contains(RationalPlayers(game_args), player))
                    => answered'.value =
                           ExpectedValue(game_args, expected.strategy_profile,
                                         node, player)
             /\ ~(node \in DOMAIN table /\ player \in DOMAIN table[node])
                    => answered'.value = Zero
             /\ player = game_args.nature => answered'.value = Zero]_vars

\* A call for a decision node and a rational player, made on the expected
\* payoffs of the derived profile, that returned a value other than 0 and 1.
C15_Witness ==
    /\ answered.method = "ExpectedPayoffs.__call__"
    /\ Contains(decision_nodes(game_args), answered.args[1])
    /\ Contains(RationalPlayers(game_args), answered.args[2])
    /\ answered.value \notin {Zero, One}
    /\ expected.derived

\* The information sets of player under which a node lies.
OwnInformationSets(g, player) ==
    {h \in PlayedInformationSets(g) : g.player_partition[h] = player}

RECURSIVE OwnHistory(_, _, _)
\* The information sets and actions of player on the path from the root to
\* node, in their order.
OwnHistory(g, player, node) ==
    IF node = initial_node(g) THEN <<>>
    ELSE LET parent == predecessors(g)[node]
             h == g.information_partition[parent]
         IN OwnHistory(g, player, parent)
            \o (IF g.player_partition[h] = player
                THEN <<<<h, g.action_partition[node]>>>>
                ELSE <<>>)

\* Perfect recall of player: the nodes of each of its information sets are
\* reached by the same information sets and actions of its own.
PerfectRecall(g, player) ==
    \A h \in OwnInformationSets(g, player) :
        \A n, m \in Members(best_response_nodes(g)[h]) :
            OwnHistory(g, player, n) = OwnHistory(g, player, m)

\* The strategies of player compared with the best response: a pure action
\* or the uniform distribution at each of its information sets.
OwnStrategies(g, player) ==
    [OwnInformationSets(g, player) ->
        ResponseDistributions \cup {<<One, Zero>>}]

\* The strategy profile sp with the strategy s at the nodes of player.
WithOwnStrategy(g, sp, player, s) ==
    [x \in DOMAIN sp |->
        LET h == g.information_partition[x[1]]
        IN IF g.player_partition[h] = player
           THEN s[h][IndexOf(available_actions(g)[h], x[2]) + 1]
           ELSE sp[x]]

\* A call expected_payoffs(node, responder) on the expected payoffs of the
\* profile that plays the best response at the nodes of the responder.
BestResponsePayoffQuery ==
    /\ answered.method = "ExpectedPayoffs.__call__"
    /\ expected.derived
    /\ answered.args[2] = responder

\* The value returned is at least the expected payoff of the responder at
\* the node asked for under every other strategy of the responder.
NoBetterStrategy ==
    \A s \in OwnStrategies(game_args, responder) :
        ~Less(answered.value,
              ExpectedValue(game_args,
                            WithOwnStrategy(game_args, profile, responder, s),
                            answered.args[1], responder))

\* C14 as stated: under the profile that plays the best action of
\* BestResponse at each information set of P, the expected payoff of P that
\* ExpectedPayoffs computes is, at every node, at least the expected payoff
\* of P at that node under any other strategy of P.
C14_BestResponseOptimalAtEveryNode ==
    BestResponsePayoffQuery => NoBetterStrategy

\* C14 amended: when P has perfect recall, the expected payoff of P that
\* ExpectedPayoffs computes under the profile that plays the best action of
\* BestResponse at each information set of P is, at the initial node, at
\* least the expected payoff of P at the initial node under any other
\* strategy of P.
C14_BestResponseOptimalAtInitialNode ==
    (/\ BestResponsePayoffQuery
     /\ answered.args[1] = initial_node(game_args)
     /\ PerfectRecall(game_args, responder))
        => NoBetterStrategy

\* Without perfect recall the initial node is not covered either.
BestResponseOptimalAtInitialNodeWithoutRecall ==
    (/\ BestResponsePayoffQuery
     /\ answered.args[1] = initial_node(game_args))
        => NoBetterStrategy

\* A call at the initial node for a responder with perfect recall that owns
\* an information set of two nodes, where another strategy pays less.
C14_Witness ==
    /\ BestResponsePayoffQuery
    /\ answered.args[1] = initial_node(game_args)
    /\ PerfectRecall(game_args, responder)
    /\ \E h \in OwnInformationSets(game_args, responder) :
           Len(best_response_nodes(game_args)[h]) = 2
    /\ \E s \in OwnStrategies(game_args, responder) :
           Less(ExpectedValue(game_args,
                              WithOwnStrategy(game_args, profile, responder, s),
                              answered.args[1], responder),
                answered.value)

(***************************************************************************)
(* games/rock_paper_scissors.py                                            *)
(***************************************************************************)
\* The enum Hand, in the order of its members.
Hand == <<"ROCK", "PAPER", "SCISSORS">>

\* The enum Player, in the order of its members.
Player == <<"ROW_PLAYER", "OPPONENT">>

\* A slip: the hands compared by their position, not around the cycle.
Hand_lt_linear(self, value) == IndexOf(Hand, self) < IndexOf(Hand, value)

\* Hand.__lt__
Hand_lt(self, value) == (IndexOf(Hand, self) + 1) % 3 = IndexOf(Hand, value)

\* create_rock_paper_scissors(weights): the arguments of the call
\* FiniteExtensiveFormGame(...) it returns.
create_rock_paper_scissors(weights) ==
    LET leaves == [k \in 1..9 |->
                      <<Hand[((k - 1) \div 3) + 1], Hand[((k - 1) % 3) + 1]>>]
        vertices == <<<<>>>> \o [k \in 1..3 |-> <<Hand[k]>>] \o leaves
        below == {v \in Members(vertices) : v # <<>>}
    IN [game_tree |->
            [vertices |-> vertices,
             root     |-> <<>>,
             leaves   |-> leaves,
             parents  |-> [v \in below |-> SubSeq(v, 1, Len(v) - 1)]],
        information_sets |-> Player,
        information_partition |->
            [v \in {v \in Members(vertices) : Len(v) < 2} |->
                Player[Len(v) + 1]],
        actions |-> Hand,
        action_partition |-> [v \in below |-> v[Len(v)]],
        players |-> Player,
        nature |-> "None",
        player_partition |-> [i \in Members(Player) |-> i],
        nature_probabilities |-> <<>>,
        payoffs |->
            [leaf \in Members(leaves) |->
                LET weight == weights[leaf[1]] * weights[leaf[2]]
                IN IF Hand_lt(leaf[1], leaf[2])
                   THEN ("ROW_PLAYER" :> -weight @@ "OPPONENT" :> weight)
                   ELSE IF Hand_lt(leaf[2], leaf[1])
                   THEN ("ROW_PLAYER" :> weight @@ "OPPONENT" :> -weight)
                   ELSE ("ROW_PLAYER" :> 0 @@ "OPPONENT" :> 0)]]

\* The weights a hand is given.
HandWeights == {1, 2}

\* The games of rock paper scissors handed to the solver: one for each
\* choice of weights, the default weights and those of rock paper scissors+
\* among them.
RockPaperScissorsInit ==
    /\ \E weights \in [Members(Hand) -> HandWeights] :
           game_args = create_rock_paper_scissors(weights)
    /\ FiniteExtensiveFormGame_post_init(game_args) = "ok"
    /\ tree_args = game_args.game_tree
    /\ tree_raised = "ok"
    /\ finite_tree = {tree_args}
    /\ game_raised = "ok"
    /\ game = {game_args}
    /\ SolverIdle
    /\ OthersIdle

SpecRockPaperScissors == RockPaperScissorsInit /\ [][CFRNext]_vars

(***************************************************************************)
(* Claims about rock paper scissors.                                       *)
(***************************************************************************)
\* The game was built with the same weight for every hand.
UniformWeights ==
    \E w \in HandWeights :
        game_args = create_rock_paper_scissors([h \in Members(Hand) |-> w])

\* x and y differ by at most 0.05.
Within(x, y) ==
    /\ ~Less(Rat(1, 20), Sub(x, y))
    /\ ~Less(Rat(1, 20), Sub(y, x))

\* C16: on rock paper scissors with uniform weights, after every number of
\* iterate() calls from the first on, the average strategy at each of the
\* two information sets is within 0.05 of 1/3 in each of the three hands.
C16_RockPaperScissorsAveragesToUniform ==
    (Ready /\ UniformWeights /\ buffers.iteration_count >= 1) =>
        \A h \in Members(Player) : \A a \in Members(Hand) :
            /\ get_average_strategy(indices, buffers, h, a).raised = "ok"
            /\ Within(get_average_strategy(indices, buffers, h, a).value,
                      Rat(1, 3))

\* On these games iterate() is at a fixed point from the first call on: the
\* strategy it leaves is the uniform one and no regret is accumulated.
RockPaperScissorsStaysUniform ==
    (Ready /\ UniformWeights /\ buffers.iteration_count >= 1) =>
        /\ buffers.strategy_profile = tensors.default_strategy_profile
        /\ \A a \in DOMAIN buffers.average_counterfactual_regrets :
               buffers.average_counterfactual_regrets[a] = Zero

\* The average strategy of the opponent read after the second iterate().
C16_Witness ==
    /\ Ready
    /\ UniformWeights
    /\ buffers.iteration_count = 2
    /\ returned.method = "get_average_strategy"
    /\ returned.args[1] = "OPPONENT"
    /\ returned.value = Rat(1, 3)

(***************************************************************************)
(* Index compilation, with a second solver built for the same game.        *)
(***************************************************************************)
\* The call CounterfactualRegretMinimization(game) made again, for a game
\* built from the same arguments: the solver it returns replaces the first.
CompileAgain ==
    /\ solver_raised # "pending"
    /\ FiniteExtensiveFormGame_post_init(game_args) = "ok"
    /\ \E made \in {setup(game_args)} :
           /\ solver_raised' = made.raised
           /\ indices' = made.indices
           /\ tensors' = made.tensors
           /\ buffers' = made.buffers
           /\ returned' = [method |-> "__init__", args |-> <<"again">>,
                           raised |-> made.raised, value |-> <<>>]
    /\ iterate_calls' = 0
    /\ UNCHANGED <<tree_vars, game_vars>>
    /\ UNCHANGED other_vars

IndexNext ==
    \/ CFRNext
    \/ CompileAgain

SpecIndex == CFRInit /\ [][IndexNext]_vars

\* The index map numbers the members of S, each once, in the order in which
\* they come in base.
NumberedInOrder(index, base, S) ==
    /\ Members(index) = S
    /\ \A i, j \in 1..Len(index) :
           i < j => IndexOf(base, index[i]) < IndexOf(base, index[j])

\* The information sets of the game that nature does not own.
NonNature(g) ==
    {h \in Members(g.information_sets) : g.player_partition[h] # g.nature}

\* The pairs of a non-nature information set and an action available at it.
AvailablePairs(g) ==
    {<<h, available_actions(g)[h][k]>> :
        <<h, k>> \in {e \in NonNature(g) \X (1..Len(g.game_tree.vertices)) :
                         e[2] <= Len(available_actions(g)[e[1]])}}

\* The pairs are numbered once each, by information set and then by the
\* order of the actions available at the information set.
PairsNumberedInOrder(g, index) ==
    /\ Members(index) = AvailablePairs(g)
    /\ \A i, j \in 1..Len(index) :
           i < j =>
               \/ IndexOf(g.information_sets, index[i][1])
                      < IndexOf(g.information_sets, index[j][1])
               \/ /\ index[i][1] = index[j][1]
                  /\ IndexOf(available_actions(g)[index[i][1]], index[i][2])
                         < IndexOf(available_actions(g)[index[i][1]],
                                   index[j][2])

\* The indices of a solver that exists are dense and in insertion order.
IndicesDenseInOrder ==
    Ready =>
        /\ NumberedInOrder(indices.nodes, game_args.game_tree.vertices,
                           Members(game_args.game_tree.vertices))
        /\ NumberedInOrder(indices.information_sets,
                           game_args.information_sets, NonNature(game_args))
        /\ PairsNumberedInOrder(game_args, indices.actions)
        /\ NumberedInOrder(indices.players, game_args.players,
                           Members(game_args.players) \ {game_args.nature})

\* A step that builds a second solver for the same game.
CompileAgainStep ==
    /\ solver_raised # "pending"
    /\ returned'.method = "__init__"

TreeEdges(g, ix) ==
    {<<IndexOf(ix.nodes, predecessors(g)[v]), IndexOf(ix.nodes, v)>> :
        v \in DOMAIN predecessors(g)}

\* The number of parents followed from v to the root, or -1 where the root
\* is not reached.
DepthOf(g, v) ==
    IF ReachesRoot(g.game_tree, v)
    THEN CHOOSE k \in 0..Len(nodes(g)) :
             /\ Ancestor(g.game_tree, v, k) = initial_node(g)
             /\ \A m \in 0..(k - 1) :
                    Ancestor(g.game_tree, v, m) # initial_node(g)
    ELSE -1

\* The greatest depth of a node.
Height(g) ==
    CHOOSE k \in 0..Len(nodes(g)) :
        /\ \E v \in Members(nodes(g)) : DepthOf(g, v) = k
        /\ \A v \in Members(nodes(g)) : DepthOf(g, v) <= k

\* C19: after setup, graph[u, v] = 1 if and only if v is an immediate child
\* of u in the game tree; every parent-child edge (u, v) is in exactly one
\* level graph, the one whose index is the depth of u, the level graphs hold
\* nothing else, and there are as many level graphs as the deepest node is
\* deep.
C19_GraphAndLevelGraphsAreTheTreeEdges ==
    Ready =>
        /\ tensors.graph = TreeEdges(game_args, indices)
        /\ \A e \in TreeEdges(game_args, indices) :
               \A k \in 1..Len(tensors.level_graphs) :
                   e \in tensors.level_graphs[k]
                       <=> k - 1 = DepthOf(game_args, indices.nodes[e[1] + 1])
        /\ \A k \in 1..Len(tensors.level_graphs) :
               tensors.level_graphs[k] \subseteq TreeEdges(game_args, indices)
        /\ Len(tensors.level_graphs) = Height(game_args)

\* The statement of C19 for the games whose nodes all reach the root.
GraphAndLevelGraphsOfRootedTree ==
    (Ready /\ \A v \in Members(nodes(game_args)) :
                  ReachesRoot(game_args.game_tree, v)) =>
        /\ tensors.graph = TreeEdges(game_args, indices)
        /\ \A e \in TreeEdges(game_args, indices) :
               \A k \in 1..Len(tensors.level_graphs) :
                   e \in tensors.level_graphs[k]
                       <=> k - 1 = DepthOf(game_args, indices.nodes[e[1] + 1])
        /\ \A k \in 1..Len(tensors.level_graphs) :
               tensors.level_graphs[k] \subseteq TreeEdges(game_args, indices)
        /\ Len(tensors.level_graphs) = Height(game_args)

\* C20: for every game that FiniteExtensiveFormGame constructs, the loop of
\* _setup_tensors that builds the level graphs ends, after no more rounds
\* than the game has nodes, and the assertion that the last layer built has
\* no edges holds: setup never raises AssertionError.
C20_LevelGraphAssertionUnreachable ==
    solver_raised # "pending" =>
        /\ solver_raised # "AssertionError"
        /\ Ready => /\ Len(BuiltLevelGraphs(game_args, indices))
                           <= Len(nodes(game_args))
                    /\ LevelGraphAssertion(game_args, indices)
                    /\ Len(tensors.level_graphs)
                           = Len(BuiltLevelGraphs(game_args, indices)) - 1

\* A solver set up for a game two levels deep.
C20_Witness ==
    /\ Ready
    /\ Len(tensors.level_graphs) = 2
    /\ tensors.level_graphs[2] # {}

(***************************************************************************)
(* Claims about the masks and the steps of iterate().                      *)
(***************************************************************************)
\* The owner of the information set of node, or "no owner" for a node
\* without an information set.
OwnerOf(g, node) ==
    IF node \in DOMAIN g.information_partition
    THEN g.player_partition[g.information_partition[node]]
    ELSE "no owner"

\* The owner of the information set of the predecessor of node, or
\* "no owner" for a node without a predecessor.
PredecessorOwnerOf(g, node) ==
    IF node \in DOMAIN predecessors(g)
    THEN OwnerOf(g, predecessors(g)[node])
    ELSE "no owner"

\* _node_player_mask[v, i] for a node and a numbered player.
MaskAt(node, i) ==
    <<IndexOf(indices.nodes, node), IndexOf(indices.players, i)>>
        \in tensors.node_player_mask

IterateStep ==
    /\ Ready
    /\ returned'.method = "iterate"
    /\ iterate_calls' = iterate_calls + 1

\* The probability with which the edge into node is taken: the entry of
\* the strategy profile sp for a rational player at the parent, the chance
\* probability for nature.
EdgeProbability(g, ix, sp, node) ==
    LET h == PredecessorInformationSet(g, node)
        a == g.action_partition[node]
    IN IF g.player_partition[h] = g.nature
       THEN g.nature_probabilities[h][a]
       ELSE sp[IndexOf(ix.actions, <<h, a>>)]

\* C22: step 1 of iterate() leaves in strategies[v], for a node v with a
\* parent p, the probability the strategy profile in force gives the action
\* of v at the information set of p where a rational player owns p, and the
\* chance probability of that action where nature owns p; strategies[root]
\* is 0.
C22_StrategiesBroadcastEdgeProbabilities ==
    [][IterateStep =>
          \A v \in Members(indices.nodes) :
              buffers'.strategies[IndexOf(indices.nodes, v)] =
                  IF v \in DOMAIN predecessors(game_args)
                  THEN EdgeProbability(game_args, indices,
                                       buffers.strategy_profile, v)
                  ELSE Zero]_vars

\* The second iterate() on a game with nature, made with a strategy profile
\* that is no longer the uniform one.
C22_Witness ==
    /\ Ready
    /\ returned.method = "iterate"
    /\ buffers.iteration_count = 2
    /\ game_args.nature \in Members(game_args.players)
    /\ \E v \in Members(non_initial_nodes(game_args)) :
           /\ PredecessorOwnerOf(game_args, v) = game_args.nature
           /\ buffers.strategies[IndexOf(indices.nodes, v)] \notin {Zero, One}
    /\ \E v \in Members(non_initial_nodes(game_args)) :
           /\ PredecessorOwnerOf(game_args, v) # game_args.nature
           /\ buffers.strategies[IndexOf(indices.nodes, v)] = One

(***************************************************************************)
(* The solver beside the recursive oracles.                                *)
(***************************************************************************)
\* A one-player game on a tree that FiniteTree accepts although the vertices
\* 2 and 3 do not reach the root: 2 is its own parent and the parent of the
\* terminal node 3, which pays 1.
DetachedLeafGame ==
    [game_tree |->
         [vertices |-> <<1, 2, 3>>,
          root     |-> 1,
          leaves   |-> <<1, 3>>,
          parents  |-> (2 :> 2 @@ 3 :> 2)],
     information_sets |-> <<"h1">>,
     information_partition |-> (2 :> "h1"),
     actions |-> <<"a", "b">>,
     action_partition |-> (2 :> "a" @@ 3 :> "b"),
     players |-> <<"p1">>,
     nature |-> "None",
     player_partition |-> ("h1" :> "p1"),
     nature_probabilities |-> <<>>,
     payoffs |-> (1 :> ("p1" :> 0) @@ 3 :> ("p1" :> 1))]

\* The games of CFRInit and DetachedLeafGame.
OracleInit ==
    \/ CFRInit
    \/ /\ game_args = DetachedLeafGame
       /\ FiniteTree_post_init(game_args.game_tree) = "ok"
       /\ FiniteExtensiveFormGame_post_init(game_args) = "ok"
       /\ tree_args = game_args.game_tree
       /\ tree_raised = "ok"
       /\ finite_tree = {tree_args}
       /\ game_raised = "ok"
       /\ game = {game_args}
       /\ SolverIdle
       /\ OthersIdle

SpecOracle == OracleInit /\ [][CFRNext]_vars

\* The strategy profile the solver plays with the array sp, as a function
\* of a node and an action: the entry of sp at the information set of the
\* node for a rational player, the chance probability for nature.
SolverProfile(g, ix, sp) ==
    [x \in {<<predecessors(g)[v], g.action_partition[v]>> :
               v \in DOMAIN predecessors(g)} |->
        LET h == g.information_partition[x[1]]
        IN IF g.player_partition[h] = g.nature
           THEN g.nature_probabilities[h][x[2]]
           ELSE sp[IndexOf(ix.actions, <<h, x[2]>>)]]

\* ExpectedPayoffs(game, profile)(node, player) for the profile the solver
\* plays with the array sp.
OraclePayoff(g, ix, sp, node, player) ==
    expected_payoffs_call(
        expected_payoffs_dfs(g, SolverProfile(g, ix, sp), initial_node(g)),
        node, player).value

\* The expected payoffs step 2 leaves agree with ExpectedPayoffs at node.
PayoffAgrees(node) ==
    \A i \in Members(indices.players) :
        buffers'.expected_payoffs[IndexOf(indices.nodes, node)][
            IndexOf(indices.players, i)]
            = OraclePayoff(game_args, indices, buffers.strategy_profile,
                           node, i)

\* C23: in every iterate(), the expected payoff step 2 computes at every
\* node for every rational player is the value ExpectedPayoffs computes for
\* that node and player under the strategy profile in force and the chance
\* probabilities.
C23_ExpectedPayoffsAgreeWithOracle ==
    [][IterateStep =>
          \A v \in Members(indices.nodes) : PayoffAgrees(v)]_vars

\* The statement of C23 for the nodes that reach the root.
ExpectedPayoffsAgreeWithOracleWhereRooted ==
    [][IterateStep =>
          \A v \in Members(indices.nodes) :
              ReachesRoot(game_args.game_tree, v) => PayoffAgrees(v)]_vars

RECURSIVE PathReach(_, _, _, _, _)
\* The product, over the edges of the path from the root to node, of 1 for
\* an edge chosen at a node of player and of the probability of the edge
\* otherwise; 0 for a node that the root does not reach.
PathReach(g, ix, sp, player, node) ==
    IF node = initial_node(g) THEN One
    ELSE IF ~ReachesRoot(g.game_tree, node) THEN Zero
    ELSE Mul(PathReach(g, ix, sp, player, predecessors(g)[node]),
             IF PredecessorOwnerOf(g, node) = player THEN One
             ELSE EdgeProbability(g, ix, sp, node))

\* The reach step 3 leaves at node for player is the product along the
\* path and the value BestResponse stores for node, and BestResponse stores
\* a value for each node that the root reaches.
ReachAgrees(node, player) ==
    LET reach == buffers'.excepted_reach_probabilities[
                     IndexOf(indices.nodes, node)][
                     IndexOf(indices.players, player)]
        stored == best_response_dfs(
                      game_args,
                      SolverProfile(game_args, indices,
                                    buffers.strategy_profile),
                      player, initial_node(game_args), One)
    IN /\ reach = PathReach(game_args, indices, buffers.strategy_profile,
                            player, node)
       /\ node \in DOMAIN stored => reach = stored[node]
       /\ ReachesRoot(game_args.game_tree, node) => node \in DOMAIN stored

\* C24: in every iterate(), for every node v and rational player i the
\* reach step 3 computes is the product, over the edges of the path from the
\* root to v, of 1 for the edges chosen at nodes of i and of the current or
\* chance probability of the edge otherwise, 1 at the root; it is the value
\* BestResponse stores as counterfactual_reach_probabilities[v] for the
\* responder i under the same profile.
C24_ReachAgreesWithBestResponse ==
    [][IterateStep =>
          \A v \in Members(indices.nodes) :
              \A i \in Members(indices.players) : ReachAgrees(v, i)]_vars

\* The second iterate() on a game of two players, after which a node is
\* reached with different probabilities for the two.
C24_Witness ==
    /\ Ready
    /\ returned.method = "iterate"
    /\ buffers.iteration_count = 2
    /\ Len(indices.players) = 2
    /\ \E v \in DOMAIN buffers.excepted_reach_probabilities :
           /\ buffers.excepted_reach_probabilities[v][0]
                  # buffers.excepted_reach_probabilities[v][1]
           /\ buffers.excepted_reach_probabilities[v][0] # Zero

\* The successor of node reached by action.
ChildVia(g, node, action) ==
    CHOOSE c \in Members(successors(g)[node]) : g.action_partition[c] = action

\* The counterfactual reach of the owner of h at node times what the owner
\* gains at node by taking the action a, under the strategy profile held in
\* the array sp; 0 at a node that is not reached.
RegretAt(g, ix, sp, h, a, node) ==
    LET i == g.player_partition[h]
        profile_of_sp == SolverProfile(g, ix, sp)
        reach == PathReach(g, ix, sp, i, node)
    IN IF reach = Zero THEN Zero
       ELSE Mul(reach,
                Sub(ExpectedValue(g, profile_of_sp, ChildVia(g, node, a), i),
                    ExpectedValue(g, profile_of_sp, node, i)))

\* The sum of RegretAt over the decision nodes of h.
InstantaneousRegret(g, ix, sp, h, a) ==
    LET ns == {n \in DOMAIN g.information_partition :
                  g.information_partition[n] = h}
    IN SumOver([n \in ns |-> RegretAt(g, ix, sp, h, a, n)], ns)

\* C25: in every iterate(), for every numbered action (h, a), owned by the
\* rational player i, the instantaneous counterfactual regret of step 6 is
\* the sum over the decision nodes n of h of the counterfactual reach of i
\* at n times the expected payoff of i at the child of n via a less that at
\* n, under the strategy profile this iteration plays.
C25_InstantaneousRegretIsReachWeightedGain ==
    [][IterateStep =>
          \A k \in 1..Len(indices.actions) :
              buffers'.instantaneous_counterfactual_regrets[k - 1] =
                  InstantaneousRegret(game_args, indices,
                                      buffers.strategy_profile,
                                      indices.actions[k][1],
                                      indices.actions[k][2])]_vars

\* The second iterate() on a game of two rational players that leaves a
\* negative instantaneous regret.
C25_Witness ==
    /\ Ready
    /\ returned.method = "iterate"
    /\ buffers.iteration_count = 2
    /\ Len(indices.players) = 2
    /\ \E a \in DOMAIN buffers.instantaneous_counterfactual_regrets :
           Less(buffers.instantaneous_counterfactual_regrets[a], Zero)

(***************************************************************************)
(* The average strategy as a weighted mean over the iterations.            *)
(***************************************************************************)
\* The arrays of the solver of g after t calls of iterate().
RECURSIVE SolverAfter(_, _)
SolverAfter(g, t) ==
    IF t = 0 THEN [tensors |-> setup(g).tensors, buffers |-> setup(g).buffers]
    ELSE LET before == SolverAfter(g, t - 1)
         IN iterate(setup(g).indices, before.tensors, before.buffers)

\* sigma_t: the strategy profile iteration t plays.
ProfileUsed(g, t) == SolverAfter(g, t - 1).buffers.strategy_profile

\* reach_t(h): the counterfactual reach of the owner of h, added over the
\* decision nodes of h, under sigma_t.
ReachOfInformationSet(g, ix, h, t) ==
    LET ns == {n \in DOMAIN g.information_partition :
                  g.information_partition[n] = h}
    IN SumOver([n \in ns |-> PathReach(g, ix, ProfileUsed(g, t),
                                        g.player_partition[h], n)], ns)

\* The sum over t = 1..T of reach_t(h).
CumulativeReach(g, ix, h, T) ==
    SumOver([t \in 1..T |-> ReachOfInformationSet(g, ix, h, t)], 1..T)

\* The sum over t = 1..T of reach_t(h) * sigma_t(h, a), over CumulativeReach.
WeightedMeanStrategy(g, ix, h, a, T) ==
    Div(SumOver([t \in 1..T |->
                    Mul(ReachOfInformationSet(g, ix, h, t),
                        ProfileUsed(g, t)[IndexOf(ix.actions, <<h, a>>)])],
                1..T),
        CumulativeReach(g, ix, h, T))

\* C26: after T >= 1 calls of iterate(), at every information set h of
\* positive cumulative counterfactual reach, the average strategy of (h, a)
\* is the mean of sigma_1(h, a) .. sigma_T(h, a) weighted by reach_1(h) ..
\* reach_T(h), and after the first call it is the uniform strategy.
C26_AverageStrategyIsReachWeightedMean ==
    (Ready /\ buffers.iteration_count >= 1) =>
        \A k \in 1..Len(indices.actions) :
            LET h == indices.actions[k][1]
                a == indices.actions[k][2]
                T == buffers.iteration_count
            IN Less(Zero, CumulativeReach(game_args, indices, h, T)) =>
                   /\ buffers.average_strategy_profile[k - 1] =
                          WeightedMeanStrategy(game_args, indices, h, a, T)
                   /\ T = 1 => buffers.average_strategy_profile[k - 1] =
                                   UniformAt(game_args, h)

\* Two calls of iterate() have left an average strategy that is neither the
\* uniform strategy nor the strategy the second iteration played, at an
\* information set both iterations reach.
C26_Witness ==
    /\ Ready
    /\ buffers.iteration_count = 2
    /\ \E k \in 1..Len(indices.actions) :
           LET h == indices.actions[k][1]
           IN /\ Less(Zero, ReachOfInformationSet(game_args, indices, h, 1))
              /\ Less(Zero, ReachOfInformationSet(game_args, indices, h, 2))
              /\ buffers.average_strategy_profile[k - 1] #
                     UniformAt(game_args, h)
              /\ buffers.average_strategy_profile[k - 1] #
                     ProfileUsed(game_args, 2)[k - 1]

(***************************************************************************)
(* BestResponse on strategy profiles that are not distributions.           *)
(***************************************************************************)
\* What a strategy profile is drawn from at an information set of two
\* actions: the distributions, and a pair that adds up to 1/2.
LooseDistributions == ResponseDistributions \cup {<<Rat(1, 2), Zero>>}

\* The strategy profile that plays choice[h] at every node of the
\* information set h, the nodes of nature included.
LooseProfileOf(g, choice) ==
    LET nr == non_initial_nodes(g)
    IN [x \in {<<predecessors(g)[nr[i]], g.action_partition[nr[i]]>> :
                  i \in 1..Len(nr)} |->
           LET h == g.information_partition[x[1]]
           IN choice[h][IndexOf(available_actions(g)[h], x[2]) + 1]]

\* The games offered: the two-player games and a game with nature, the
\* payoff of p1 drawn at the last leaf.
DrawLooseResponseGame ==
    \E last \in ResponsePayoffs :
        \/ \E split \in BOOLEAN :
            game_args = TwoPlayerGame(split, FALSE,
                                      4 :> 1 @@ 5 :> 0 @@ 6 :> 0 @@ 7 :> last)
        \/ game_args = NatureGame("a" :> Rat(1, 2) @@ "b" :> Rat(1, 2),
                                  3 :> 1 @@ 4 :> 0 @@ 5 :> last)

\* A game, a responder and a strategy profile that need not be a
\* distribution at any information set, the responder's and nature's
\* included.
LooseResponseInit ==
    /\ DrawLooseResponseGame
    /\ FiniteExtensiveFormGame_post_init(game_args) = "ok"
    /\ tree_args = game_args.game_tree
    /\ tree_raised = "ok"
    /\ finite_tree = {tree_args}
    /\ game_raised = "ok"
    /\ game = {game_args}
    /\ SolverIdle
    /\ MinimizerIdle
    /\ responder \in Members(RationalPlayers(game_args))
    /\ \E choice \in [DOMAIN available_actions(game_args) ->
                         LooseDistributions] :
        profile = LooseProfileOf(game_args, choice)
    /\ best_response = <<>>
    /\ expected = <<>>
    /\ answered = NoCall

SpecLooseResponse == LooseResponseInit /\ [][ResponseNext]_vars

\* A decision node the responder does not own at which the probabilities
\* of the strategy profile do not add up to 1.
Unnormalised(node) ==
    /\ Contains(decision_nodes(game_args), node)
    /\ OwnerOf(game_args, node) # responder
    /\ LET succ == successors(game_args)[node]
       IN SumSeq([k \in 1..Len(succ) |->
                     profile[<<node, game_args.action_partition[succ[k]]>>]])
              # One

\* A node with an unnormalised node in its subtree.
OverUnnormalised(node) ==
    \E n \in Descendants(game_args, node) : Unnormalised(n)

\* A step that is a call of get_expected_payoff.
GetExpectedPayoffStep ==
    /\ best_response # <<>>
    /\ answered'.method = "get_expected_payoff"

\* C27: get_expected_payoff(node) raises AssertionError when the subtree of
\* node holds a decision node, not the responder's, at which the
\* probabilities of the strategy profile do not add up to 1, and no expected
\* payoff it leaves behind was computed from such a node.
C27_UnnormalisedProfileFailsAssertion ==
    [][GetExpectedPayoffStep =>
          /\ OverUnnormalised(answered'.args[1]) =>
                 /\ answered'.raised = "AssertionError"
                 /\ answered'.value = <<>>
          /\ \A n \in DOMAIN best_response'.expected_payoff :
                 ~OverUnnormalised(n)]_vars

\* get_expected_payoff of a node whose own probabilities add up to 1 has
\* raised AssertionError for a node below it, and left the expected payoff
\* of another node behind.
C27_Witness ==
    /\ best_response # <<>>
    /\ answered.method = "get_expected_payoff"
    /\ answered.raised = "AssertionError"
    /\ ~Unnormalised(answered.args[1])
    /\ OverUnnormalised(answered.args[1])
    /\ \E n \in DOMAIN best_response.expected_payoff :
           Contains(decision_nodes(game_args), n)

(***************************************************************************)
(* BestResponse on a game without perfect recall.                          *)
(***************************************************************************)
\* The two-player game on BinaryTree in which the root and its first
\* successor lie in the same information set h1 of p1: p1 does not know
\* whether it has moved already.
AbsentMindedGame(u) ==
    [TwoPlayerGame(FALSE, FALSE, u) EXCEPT
        !.information_partition = (1 :> "h1" @@ 2 :> "h1" @@ 3 :> "h2")]

AbsentMindedInit ==
    /\ \E u \in [Members(BinaryTree.leaves) -> ResponsePayoffs] :
           game_args = AbsentMindedGame(u)
    /\ FiniteExtensiveFormGame_post_init(game_args) = "ok"
    /\ tree_args = game_args.game_tree
    /\ tree_raised = "ok"
    /\ finite_tree = {tree_args}
    /\ game_raised = "ok"
    /\ game = {game_args}
    /\ SolverIdle
    /\ MinimizerIdle
    /\ responder \in Members(RationalPlayers(game_args))
    /\ \E choice \in [PlayedInformationSets(game_args) ->
                         ResponseDistributions] :
        /\ \A h \in DOMAIN choice :
               game_args.player_partition[h] = responder =>
                   choice[h] = <<Rat(1, 2), Rat(1, 2)>>
        /\ profile = ProfileOf(game_args, choice)
    /\ best_response = <<>>
    /\ expected = <<>>
    /\ answered = NoCall

SpecAbsentMinded == AbsentMindedInit /\ [][ResponseNext]_vars

\* C28: BestResponse construction, get_best_action, get_expected_payoff and
\* ExpectedPayoffs construction terminate on every validated game and
\* strategy profile: no query is entered again while it is in progress, so
\* none ends in RecursionError, also not when an information set holds a
\* node and one of its descendants.
C28_QueriesNeverReenter == answered.raised # "RecursionError"

\* On the games in which no information set holds a node and one of its
\* descendants the queries do end.
QueriesNeverReenterWithRecall ==
    PerfectRecall(game_args, responder) => answered.raised # "RecursionError"

(***************************************************************************)
(* The current behavioral strategy as a probability distribution.          *)
(***************************************************************************)
\* A float that is a number of [0, 1].
IsProbability(x) ==
    /\ ~isnan(x)
    /\ IsFinite(x)
    /\ ~Less(x, Zero)
    /\ ~Less(One, x)

\* The current strategy of the node-based solver is a distribution at every
\* information set that nature does not own.
NodeBasedIsDistribution ==
    \A h \in NonNatureInformationSets(game_args) :
        /\ \A a \in MenuAt(game_args, h) : IsProbability(CurrentStrategy(h, a))
        /\ SumOver([a \in MenuAt(game_args, h) |-> CurrentStrategy(h, a)],
                   MenuAt(game_args, h)) = One

\* The behavioral strategy of the minimizer m is a distribution at every
\* decision point of p.
SequenceFormIsDistribution(p, m) ==
    \A j \in Members(p.decision_points) :
        /\ \A a \in Members(p.actions[j]) :
               IsProbability(m.behavioral_strategy[SequenceAt(p, j, a)])
        /\ SumOver([a \in Members(p.actions[j]) |->
                       m.behavioral_strategy[SequenceAt(p, j, a)]],
                   Members(p.actions[j])) = One

\* C29: after setup and after every iterate() of the node-based solver, and
\* after every next_strategy() of either sequence-form minimizer, whatever
\* utilities were observed, the current behavioral strategy is a probability
\* distribution at every information set or decision point: each entry is a
\* number of [0, 1] and the entries of the actions add up to 1.
C29_CurrentStrategyIsDistribution ==
    /\ [](Ready => NodeBasedIsDistribution)
    /\ [][NextStrategyStep =>
              SequenceFormIsDistribution(process', minimizer')]_vars

\* The node-based solver has iterated twice and holds a strategy that is
\* not the uniform one.
C29_Witness ==
    /\ Ready
    /\ buffers.iteration_count = 2
    /\ NodeBasedIsDistribution
    /\ \E h \in NonNatureInformationSets(game_args) :
           \E a \in MenuAt(game_args, h) :
               CurrentStrategy(h, a) # UniformAt(game_args, h)

(***************************************************************************)
(* The sequence form of a behavioral strategy.                             *)
(***************************************************************************)
\* The position in sequences of the parent sequence of the non-empty
\* sequence at position q.
ParentSequenceOf(p, q) ==
    IndexOf(p.sequences, p.parent_sequences[p.sequences[q + 1][1]])

RECURSIVE ChainProduct(_, _, _)
\* The product of the behavioral probabilities along the chain of parent
\* sequences of the sequence at position q.
ChainProduct(p, b, q) ==
    IF q = 0 THEN One
    ELSE Mul(b[q - 1], ChainProduct(p, b, ParentSequenceOf(p, q)))

\* s is the sequence form of the behavioral strategy b of p.
IsSequenceFormOf(p, b, s) ==
    /\ DOMAIN s = Indices(p.sequences)
    /\ s[0] = One
    /\ \A q \in 1..(Len(p.sequences) - 1) :
           /\ s[q] = Mul(b[q - 1], s[ParentSequenceOf(p, q)])
           /\ s[q] = ChainProduct(p, b, q)

\* The entries of the behavioral strategies the conversion is tried on
\* beside those that regret matching produces.
BehavioralValues == {Zero, Rat(1, 2), Rat(2, 1)}

\* C30: behavioral_to_sequence_form maps a behavioral strategy b to the
\* vector s with s[0] = 1 at the empty sequence and, at every other
\* sequence q, s[q] = b[q-1] * s[parent sequence of q], which is the product
\* of the behavioral probabilities along the chain of parent sequences of q:
\* for the strategy every next_strategy() converts, and for every vector
\* over BehavioralValues on each decision process offered.
C30_SequenceFormIsProductAlongParents ==
    /\ [][NextStrategyStep =>
              IsSequenceFormOf(
                  process', minimizer'.behavioral_strategy,
                  minimizer'.strategies[Len(minimizer'.strategies)])]_vars
    /\ []((process # <<>> /\ minimizer = <<>>) =>
              \A b \in [BehavioralIndices(process) -> BehavioralValues] :
                  IsSequenceFormOf(process, b,
                                   behavioral_to_sequence_form(process, b)))

\* next_strategy() has converted, after an observation, a strategy that is
\* not uniform, and a sequence of the second stage got a value that is
\* neither 0 nor its behavioral probability.
C30_Witness ==
    /\ minimizer # <<>>
    /\ observe_calls > 0
    /\ Len(minimizer.strategies) > observe_calls
    /\ minimizer.behavioral_strategy # minimizer.behavioral_uniform_strategy
    /\ \E q \in 1..(Len(process.sequences) - 1) :
           LET s == minimizer.strategies[Len(minimizer.strategies)]
           IN /\ ParentSequenceOf(process, q) # 0
              /\ s[q] # Zero
              /\ s[q] # minimizer.behavioral_strategy[q - 1]
              /\ IsSequenceFormOf(process, minimizer.behavioral_strategy, s)

====
